---- MODULE Spec2Model ----
(***************************************************************************)
(* The request executor of the ORCID client (orcid/client.go): one client  *)
(* built by NewClient, its ticker-based rate limiter, and logical calls of *)
(* Client.doRequest running concurrently against it.  Time is a global     *)
(* clock `now`; timers and the ticker may fire late but never early.       *)
(***************************************************************************)
EXTENDS Integers, Sequences, FiniteSets, TLC

\* ---------------------------------------------------------------- bounds
\* clock units in one second (time.Second is 10^9 ns; integer division by
\* the rate truncates in the same way at this resolution)
Second == 3
\* the clock stops advancing here
MaxTime == 16
\* and here in the runs with concurrent callers
MaxTimeRate == 7
\* logical calls (goroutines calling doRequest) in the concurrent runs
NumCalls == 4
\* largest configured maxRetries explored
MaxRetriesCfg == 2
\* largest configured requests-per-second explored
MaxRateCfg == 2
\* the clock stops here in the runs of the search iterator
MaxTimeIter == 2
\* Next calls made on one iterator
MaxNexts == 6
\* page fetches one iterator may start
MaxFetches == 3
\* most records in one page of search results
MaxPageLen == 2
\* most options in one call of NewClient
MaxOpts == 3
\* the clock stops here in the runs over the constructed clients
MaxTimeOpts == 3
\* most fragments, starts and rows added to one SearchQuery
MaxQueryCalls == 2

Calls == 1..NumCalls

\* ------------------------------------------------------- program constants
StatusOK == 200
StatusRequestTimeout == 408
StatusTooManyRequests == 429
ContentTypeJSON == "application/json"
ContentTypeXML == "application/vnd.orcid+xml"

\* status codes the transport may answer with (every class of the
\* classification and both edges of 500..599)
Statuses == {200, 201, 304, 404, 408, 429, 499, 500, 599, 600}
\* response bodies: b1 is a JSON document, b2 an XML document
Bodies == {"b1", "b2"}

\* what httpClient.Do can return: a transport error (network failure or the
\* context's error) or a response
Responses == [kind : {"resp"}, status : Statuses, body : Bodies]
TransportErrors == {[kind |-> "err", status |-> 0, body |-> "net"],
                    [kind |-> "err", status |-> 0, body |-> "ctx"]}
Outcomes == Responses \cup TransportErrors

VARIABLES
    opts,          \* the options NewClient was called with
    client,        \* the Client's other fields, and whether NewClient panicked
    bearerToken,   \* Client.bearerToken
    maxRetries,    \* Client.maxRetries
    rateLimit,     \* Client.rateLimit
    rateLimiter,   \* Client.rateLimiter: "nil" or "ticker"
    tickerC,       \* number of ticks buffered in rateLimiter.C (capacity 1)
    nextTick,      \* time at which the ticker is next due
    now,           \* the clock
    load,          \* the run's workload: who calls, with which URLs, who
                   \* may cancel, what the transport answers, how long the
                   \* clock runs
    ctxDone,       \* per call: ctx.Done() is closed
    call,          \* per call: the state of doRequest's frame
    obs,           \* per call: what an observer of the call has counted
    si,            \* the SearchIterator's fields
    it,            \* what the iterator's caller has done and seen
    fn             \* the last call of a function without side effects (its
                   \* name, its arguments and what it returned), or the
                   \* SearchQuery under construction and the calls made on it

vars == <<opts, client, bearerToken, maxRetries, rateLimit, rateLimiter, tickerC, nextTick,
          now, load, ctxDone, call, obs, si, it, fn>>

config == <<opts, client, bearerToken, maxRetries, rateLimit, rateLimiter, load>>

iter == <<si, it>>

\* ------------------------------------------------------------- values
NilErr == [kind |-> "nil", status |-> 0, body |-> ""]
NoRet == [kind |-> "none", status |-> 0, body |-> "", cause |-> NilErr]

\* fmt.Errorf("bearer token is required ...")
MissingCredential ==
    [kind |-> "MissingCredential", status |-> 0, body |-> "", cause |-> NilErr]
\* ctx.Err()
Cancelled == [kind |-> "Cancelled", status |-> 0, body |-> "", cause |-> NilErr]
\* the error of http.NewRequestWithContext
BadRequest == [kind |-> "BadRequest", status |-> 0, body |-> "", cause |-> NilErr]
\* return resp, nil
Success(o) == [kind |-> "ok", status |-> o.status, body |-> o.body, cause |-> NilErr]
\* fmt.Errorf("HTTP %d: %s - %s", status, text, body)
RemoteRejected(o) ==
    [kind |-> "RemoteRejected", status |-> o.status, body |-> o.body, cause |-> NilErr]
\* fmt.Errorf("max retries exceeded: %w", lastErr)
RetriesExhausted(e) ==
    [kind |-> "RetriesExhausted", status |-> 0, body |-> "", cause |-> e]
\* lastErr = fmt.Errorf("HTTP %d: %s", status, text)
HTTPErr(o) == [kind |-> "http", status |-> o.status, body |-> ""]


\* ------------------------------------------------------ doRequest's tests
\* mutant: the token test is missing
TokenMissingSkipped(tok) == FALSE

\* if c.bearerToken == ""
TokenMissing(tok) == tok = ""

\* time.Second / time.Duration(c.rateLimit): integer division
TickerPeriod(n) == Second \div n

\* mutant: attempt < c.maxRetries
LoopCondExclusive(attempt, retries) == attempt < retries

\* for attempt := 0; attempt <= c.maxRetries; attempt++
LoopCond(attempt, retries) == attempt <= retries

\* mutant: a linear backoff
BackoffLinear(attempt) == attempt * Second

\* backoff := time.Duration(attempt*attempt) * time.Second
Backoff(attempt) == attempt * attempt * Second

\* mutant: the success test compares with 201 Created
IsSuccessCreated(status) == status = 201

\* if resp.StatusCode == http.StatusOK
IsSuccess(status) == status = StatusOK

\* mutant: every status from 400 up is retried
IsRetryableClientErrors(status) == status >= 400

\* mutant: the 5xx test has no upper edge
IsRetryableOpenRange(status) ==
    \/ status = StatusTooManyRequests
    \/ status = StatusRequestTimeout
    \/ status >= 500

\* 429, 408 or 500 <= status < 600
IsRetryable(status) ==
    \/ status = StatusTooManyRequests
    \/ status = StatusRequestTimeout
    \/ (status >= 500 /\ status < 600)

\* the cases of "select { case <-c.rateLimiter.C: case <-ctx.Done(): }" that
\* are ready when call c reaches it
GateCases(c) ==
    {k \in {"tick"} : tickerC > 0} \cup {k \in {"done"} : ctxDone[c]}

\* ------------------------------------------------- doRequest's control flow
\* return from doRequest with r
Return(cs, r) == [cs EXCEPT !.pc = "done", !.ret = r, !.wakeAt = 0]

\* the header of a request on which nothing was set
NoHeaders == [UserAgent |-> "", Accept |-> "", Authorization |-> <<>>]

\* mutant: a retry reuses a request that lost its Authorization header
HeadersFirstOnly(attempt) ==
    [UserAgent |-> client.userAgent, Accept |-> client.contentType,
     Authorization |-> IF attempt = 0 THEN <<"Bearer ", bearerToken>> ELSE <<>>]

\* req.Header.Set of User-Agent, Accept and Authorization ("Bearer "+token)
Headers(attempt) ==
    [UserAgent |-> client.userAgent, Accept |-> client.contentType,
     Authorization |-> <<"Bearer ", bearerToken>>]

\* http.NewRequestWithContext, the three headers, and the call of
\* c.httpClient.Do: the request fails to build, or Do dereferences a nil
\* *http.Client, or the request is handed to the transport (dead: its
\* context was already done)
SendRequest(c, cs, ob) ==
    IF cs.url = "bad"
    THEN <<Return(cs, BadRequest), ob>>
    ELSE IF client.httpClient = "nil"
    THEN <<[cs EXCEPT !.pc = "panicked"], ob>>
    ELSE <<[cs EXCEPT !.pc = "inflight", !.dead = ctxDone[c], !.wakeAt = 0],
           [ob EXCEPT !.attempts = @ + 1, !.hdr = Headers(cs.attempt)]>>

\* one pass through the head of the retry loop, at the current value of
\* attempt: the loop test, and for attempt > 0 the backoff select (on entry
\* only ctx.Done() can be ready, the timer was just armed)
EnterLoop(c, cs, ob) ==
    IF ~LoopCond(cs.attempt, maxRetries)
    THEN <<Return(cs, RetriesExhausted(cs.lastErr)), ob>>
    ELSE IF cs.attempt > 0
         THEN IF ctxDone[c]
              THEN <<Return(cs, Cancelled), ob>>
              ELSE <<[cs EXCEPT !.pc = "backoff",
                                !.wakeAt = now + Backoff(cs.attempt)],
                     [ob EXCEPT !.lastEnd = now]>>
         ELSE SendRequest(c, cs, ob)

\* the rate limiter's select took the tick
GatePassed(c, cs, ob) ==
    EnterLoop(c, cs, [ob EXCEPT !.permits = @ + 1, !.gate = "tick"])

\* mutant: the ctx.Done() case does not return
GateCancelledFallsThrough(c, cs, ob) ==
    EnterLoop(c, cs, [ob EXCEPT !.gate = "done"])

\* the rate limiter's select took ctx.Done(): return nil, ctx.Err()
GateCancelled(c, cs, ob) ==
    <<Return(cs, Cancelled), [ob EXCEPT !.gate = "done"]>>

\* mutant: the backoff sleeps without watching ctx.Done()
BackoffCancelledSleeps(c, cs, ob) == <<cs, ob>>

\* the backoff select took ctx.Done(): return nil, ctx.Err()
BackoffCancelled(c, cs, ob) ==
    <<Return(cs, Cancelled), [ob EXCEPT !.lastEnd = 0, !.woke = "done"]>>

\* the error value of a failed httpClient.Do
TransportErr(o) == [kind |-> "transport", status |-> 0, body |-> o.body]

\* mutant: continue without attempt++
ContinueWithoutAdvance(cs, e) == [cs EXCEPT !.lastErr = e]

\* mutant: only the first cause is kept
ContinueWithFirst(cs, e) ==
    [cs EXCEPT !.lastErr = IF @ = NilErr THEN e ELSE @, !.attempt = @ + 1]

\* lastErr = e; continue
ContinueWith(cs, e) == [cs EXCEPT !.lastErr = e, !.attempt = @ + 1]

\* what doRequest does with the outcome o of httpClient.Do
Classify(c, cs, ob, o) ==
    IF o.kind = "err"
    THEN EnterLoop(c, ContinueWith(cs, TransportErr(o)), ob)
    ELSE IF IsSuccess(o.status)
         THEN <<Return(cs, Success(o)), ob>>
         ELSE IF IsRetryable(o.status)
              THEN EnterLoop(c, ContinueWith(cs, HTTPErr(o)), ob)
              ELSE <<Return(cs, RemoteRejected(o)), ob>>

\* ------------------------------------------------------- the typed fetches
\* the error of io.ReadAll and of unmarshalResponse in a fetch
ReadError == [kind |-> "ReadError", status |-> 0, body |-> "", cause |-> NilErr]
DecodeError == [kind |-> "DecodeError", status |-> 0, body |-> "", cause |-> NilErr]
\* fmt.Errorf("unsupported content type: %s", c.contentType)
UnsupportedContentType ==
    [kind |-> "UnsupportedContentType", status |-> 0, body |-> "", cause |-> NilErr]
\* a nil result pointer
NilValue == [doc |-> "nil"]
\* a fetch that has not returned
NoResult == [value |-> NilValue, err |-> NoRet]

\* json.Unmarshal and xml.Unmarshal into the fetch's struct: the error
json_Unmarshal(data) == IF data = "b1" THEN NoRet ELSE DecodeError
xml_Unmarshal(data) == IF data = "b2" THEN NoRet ELSE DecodeError

\* Client.unmarshalResponse
unmarshalResponse(contentType, data) ==
    CASE contentType = ContentTypeJSON -> json_Unmarshal(data)
      [] contentType = ContentTypeXML -> xml_Unmarshal(data)
      [] OTHER -> UnsupportedContentType

\* mutant: the decode error is dropped and the zero struct returned
DecodedIgnoringErr(contentType, data) ==
    [value |-> [doc |-> IF unmarshalResponse(contentType, data) = NoRet
                        THEN data ELSE "zero"],
     err |-> NoRet]

\* if err := c.unmarshalResponse(data, &v); err != nil { return nil, err }
\* return &v, nil
Decoded(contentType, data) ==
    IF unmarshalResponse(contentType, data) # NoRet
    THEN [value |-> NilValue, err |-> unmarshalResponse(contentType, data)]
    ELSE [value |-> [doc |-> data], err |-> NoRet]

\* ------------------------------------------------------ the search iterator
\* the call slot the iterator's searches run in (si.ctx is that call's ctx)
IterCall == 1

\* values the caller passes as SearchParams.Start and SearchParams.Rows
StartValues == {0, 1}
RowsValues == {-1, 0, 2, 10}
\* num-found values the server may report
Totals == {0, 3, 25}

\* currentBatch == nil
NoBatch == [id |-> 0, n |-> 0, total |-> 0]
\* a decoded SearchResult: the id-th page fetched, n records, num-found
Pages(id) == [id : {id}, n : 0..MaxPageLen, total : Totals]
\* the rows value of a search whose SearchParams.Rows is not positive
DefaultRows == 10

\* a nil *SearchRecord
NilRecord == [page |-> 0, idx |-> 0]
\* Client.SearchIter
SearchIter(start, rows) ==
    [start |-> start, rows |-> rows, batch |-> NoBatch, index |-> -1,
     total |-> 0, err |-> NoRet]

\* mutant: start is set whenever it is not 0
BuildSearchURLNonZero(start, rows) ==
    [hasStart |-> start # 0,
     start |-> IF start # 0 THEN start ELSE 0,
     rows |-> IF rows > 0 THEN rows ELSE DefaultRows]

\* Client.buildSearchURL's start and rows parameters: start only when
\* positive, rows 10 unless positive
BuildSearchURL(start, rows) ==
    [hasStart |-> start > 0,
     start |-> IF start > 0 THEN start ELSE 0,
     rows |-> IF rows > 0 THEN rows ELSE DefaultRows]

\* the characters of the query strings explored
QueryChars == {"a", " ", ":"}
\* url.QueryEscape, character by character
EscapeChar(ch) ==
    CASE ch = " " -> <<"+">>
      [] ch = ":" -> <<"%", "3", "A">>
      [] OTHER -> <<ch>>
RECURSIVE QueryEscape(_)
QueryEscape(q) ==
    IF q = <<>> THEN <<>> ELSE EscapeChar(Head(q)) \o QueryEscape(Tail(q))

\* the whole of buildSearchURL: c.apiURL + "/search", "?", and the encoded
\* values q, rows and start (url.Values.Encode sorts by key)
SearchURL(apiURL, params) ==
    [base |-> apiURL \o <<"/", "search">>,
     q |-> QueryEscape(params.query),
     start |-> BuildSearchURL(params.start, params.rows).start,
     hasStart |-> BuildSearchURL(params.start, params.rows).hasStart,
     rows |-> BuildSearchURL(params.start, params.rows).rows]

\* mutant: a failed iterator is not remembered
HasFailedForgets(s) == FALSE

\* if si.err != nil
HasFailed(s) == s.err # NoRet

\* mutant: Next does not look at ctx.Done()
CtxFiredIgnored(c) == FALSE

\* select { case <-si.ctx.Done(): ... default: }
CtxFired(c) == ctxDone[c]

\* mutant: the page counts as used up one step late
NeedsFetchLate(s) == s.batch = NoBatch \/ s.index >= s.batch.n

\* si.currentBatch == nil || si.currentIndex >= len(si.currentBatch.Results)-1
NeedsFetch(s) == s.batch = NoBatch \/ s.index >= s.batch.n - 1

\* mutant: the end is judged by the records the page returned
AtEndByReturned(s) == s.start + s.batch.n >= s.total

\* si.params.Start+si.params.Rows >= si.totalResults
AtEnd(s) == s.start + s.rows >= s.total

\* si.params.Start += si.params.Rows
AdvanceStart(s) == [s EXCEPT !.start = @ + s.rows]

\* mutant: the total is taken from non-empty pages only
AcceptPageStaleTotal(s, page) ==
    [s EXCEPT !.batch = page, !.index = -1,
              !.total = IF page.n = 0 THEN @ ELSE page.total]

\* si.currentBatch = result; si.totalResults = result.NumFound;
\* si.currentIndex = -1
AcceptPage(s, page) ==
    [s EXCEPT !.batch = page, !.total = page.total, !.index = -1]

\* si.currentIndex++; return si.currentIndex < len(si.currentBatch.Results)
StepIndex(s) == <<[s EXCEPT !.index = @ + 1], s.index + 1 < s.batch.n>>

\* mutant: an empty page is recorded as a failure
EnterPageEmptyFails(s) ==
    IF s.batch.n = 0
    THEN <<[s EXCEPT !.err = DecodeError], FALSE>>
    ELSE StepIndex(s)

\* after a fetch: if len(result.Results) == 0 { return false }, else step
EnterPage(s) ==
    IF s.batch.n = 0 THEN <<s, FALSE>> ELSE StepIndex(s)

\* mutant: Value indexes the page without its bounds test
ValueUnchecked(s) == [page |-> s.batch.id, idx |-> s.index]

\* SearchIterator.Value
Value(s) ==
    IF s.batch = NoBatch \/ s.index < 0 \/ s.index >= s.batch.n
    THEN NilRecord
    ELSE [page |-> s.batch.id, idx |-> s.index]

\* SearchIterator.Error
Error(s) == s.err

\* SearchIterator.TotalResults
TotalResults(s) == s.total

\* ------------------------------------------------------------ construction
DefaultMaxRetries == 3
\* DefaultRateLimit is 10 requests per second; on the model's clock, whose
\* second has Second units, the default is the rate of one per second
DefaultRateLimit == 1
\* DefaultTimeout = 30 * time.Second
DefaultTimeout == 30 * Second
\* PublicHost, and the same with trailing separators
DefaultAPIURL == <<"h">>
\* a rate so large that one second divided by it truncates to 0
BigRate == Second + 1

\* the ClientOption values a caller may pass
Options ==
    {[name |-> "WithBearerToken", arg |-> "tok"],
     [name |-> "WithMaxRetries", arg |-> 0],
     [name |-> "WithRateLimit", arg |-> -1],
     [name |-> "WithRateLimit", arg |-> 0],
     [name |-> "WithRateLimit", arg |-> 1],
     [name |-> "WithRateLimit", arg |-> BigRate],
     [name |-> "WithTimeout", arg |-> Second],
     [name |-> "WithHTTPClient", arg |-> "nil"],
     [name |-> "WithHTTPClient", arg |-> "custom"],
     [name |-> "WithUserAgent", arg |-> "ua"],
     [name |-> "WithContentType", arg |-> ContentTypeXML],
     [name |-> "WithContentType", arg |-> "text/plain"],
     [name |-> "WithAPIURL", arg |-> <<"s", "/", "/">>]}

\* strings.TrimRight(url, "/")
RECURSIVE TrimRight(_)
TrimRight(u) ==
    IF u # <<>> /\ u[Len(u)] = "/" THEN TrimRight(SubSeq(u, 1, Len(u) - 1)) ELSE u

\* time.NewTicker(time.Second / time.Duration(n)) on client c: NewTicker
\* panics when the period is not positive
NewTicker(c, n) ==
    IF TickerPeriod(n) <= 0
    THEN [c EXCEPT !.panicked = TRUE]
    ELSE [c EXCEPT !.rateLimiter = "ticker", !.period = TickerPeriod(n)]

\* the Client literal at the head of NewClient; httpTimeout is the Timeout
\* of the http.Client that httpClient points to
NewClientLiteral ==
    [httpClient |-> "default", httpTimeout |-> DefaultTimeout,
     apiURL |-> DefaultAPIURL, timeout |-> DefaultTimeout,
     maxRetries |-> DefaultMaxRetries, rateLimit |-> DefaultRateLimit,
     userAgent |-> "", contentType |-> ContentTypeJSON,
     rateLimiter |-> "nil", period |-> 0, bearerToken |-> "",
     panicked |-> FALSE]

\* WithRateLimit(n) applied to c
WithRateLimit(c, n) ==
    IF n > 0 THEN NewTicker([c EXCEPT !.rateLimit = n], n)
    ELSE [c EXCEPT !.rateLimit = n]

\* WithTimeout(t) applied to c: c.httpClient.Timeout dereferences httpClient
WithTimeout(c, t) ==
    IF c.httpClient = "nil"
    THEN [c EXCEPT !.timeout = t, !.panicked = TRUE]
    ELSE [c EXCEPT !.timeout = t, !.httpTimeout = t]

\* WithHTTPClient(h) applied to c; a caller's http.Client has no Timeout set
WithHTTPClient(c, h) == [c EXCEPT !.httpClient = h, !.httpTimeout = 0]

\* opt(c) for one option; nothing runs after a panic
ApplyOption(c, o) ==
    IF c.panicked THEN c
    ELSE CASE o.name = "WithBearerToken" -> [c EXCEPT !.bearerToken = o.arg]
           [] o.name = "WithMaxRetries" -> [c EXCEPT !.maxRetries = o.arg]
           [] o.name = "WithRateLimit" -> WithRateLimit(c, o.arg)
           [] o.name = "WithTimeout" -> WithTimeout(c, o.arg)
           [] o.name = "WithHTTPClient" -> WithHTTPClient(c, o.arg)
           [] o.name = "WithUserAgent" -> [c EXCEPT !.userAgent = o.arg]
           [] o.name = "WithContentType" -> [c EXCEPT !.contentType = o.arg]
           [] o.name = "WithAPIURL" -> [c EXCEPT !.apiURL = TrimRight(o.arg)]

\* for _, opt := range opts { opt(c) }
RECURSIVE ApplyOptions(_, _)
ApplyOptions(c, os) ==
    IF os = <<>> THEN c
    ELSE ApplyOptions(ApplyOption(c, Head(os)), Tail(os))

\* NewClient(opts...)
NewClient(os) ==
    LET c == ApplyOptions(NewClientLiteral, os)
    IN  IF ~c.panicked /\ c.rateLimit > 0 THEN NewTicker(c, c.rateLimit) ELSE c

\* ------------------------------------------------------------- initial state
IdleCall == [pc |-> "idle", attempt |-> 0, lastErr |-> NilErr, wakeAt |-> 0,
             ret |-> NoRet, url |-> "ok", dead |-> FALSE, res |-> NoResult]
NoObs == [attempts |-> 0, permits |-> 0, gate |-> "none", preDone |-> FALSE,
          last |-> NilErr, lastEnd |-> 0, waited |-> 0, woke |-> "none",
          hdr |-> NoHeaders, waits |-> <<>>]

\* the client NewClient returns: the ticker exists iff rateLimit > 0, and
\* time.NewTicker panics on a period that is not positive
\* the state in which NewClient(os) has returned c, or has panicked
Constructed(os, c) ==
    /\ opts = os
    /\ client = [f \in {"httpClient", "httpTimeout", "apiURL", "timeout",
                        "userAgent", "contentType", "period", "panicked"} |-> c[f]]
    /\ bearerToken = c.bearerToken
    /\ maxRetries = c.maxRetries
    /\ rateLimit = c.rateLimit
    /\ rateLimiter = c.rateLimiter
    /\ tickerC = 0
    /\ nextTick = c.period
    /\ now = 0
    /\ ctxDone = [k \in Calls |-> FALSE]
    /\ call = [k \in Calls |-> IdleCall]
    /\ obs = [k \in Calls |-> NoObs]

\* the options that configure token, maxRetries and rate limit
OptionsOf(tok, retries, rate) ==
    <<[name |-> "WithBearerToken", arg |-> tok],
      [name |-> "WithMaxRetries", arg |-> retries],
      [name |-> "WithRateLimit", arg |-> rate]>>

ClientOf(tok, retries, rate) ==
    Constructed(OptionsOf(tok, retries, rate),
                NewClient(OptionsOf(tok, retries, rate)))


\* the caller's log of an iterator: the SearchParams it passed, Next calls
\* begun, the result of the last one, the searches issued, the pages
\* received, the records read
NoLog == [pc |-> "none", params |-> [start |-> 0, rows |-> 0], nexts |-> 0,
          last |-> "none", fetches |-> <<>>, pages |-> <<>>, yielded |-> <<>>]

\* no function has been called
NoCall == [op |-> "none", in |-> <<>>, out |-> <<>>]

\* no iterator has been created, no function called
NoIterator ==
    /\ si = SearchIter(0, 0)
    /\ it = NoLog
    /\ fn = NoCall

Constructible(rate) == IF rate > 0 THEN TickerPeriod(rate) > 0 ELSE TRUE

Init ==
    /\ \E tok \in {"", "tok"}, retries \in -1..MaxRetriesCfg, rate \in -1..MaxRateCfg :
          /\ Constructible(rate)
          /\ ClientOf(tok, retries, rate)
    /\ load = [callers |-> {1}, urls |-> {"ok", "bad"}, cancellers |-> {1},
               outcomes |-> Outcomes, horizon |-> MaxTime]
    /\ NoIterator

\* ------------------------------------------------------------------ actions
\* a caller enters doRequest: the token check, then the limiter's select
DoRequest(c) ==
    /\ c \in load.callers
    /\ call[c].pc = "idle"
    /\ \E u \in load.urls :
         LET cs == [call[c] EXCEPT !.url = u]
             ob == [obs[c] EXCEPT !.preDone = ctxDone[c]]
         IN  IF TokenMissing(bearerToken)
             THEN /\ call' = [call EXCEPT ![c] = Return(cs, MissingCredential)]
                  /\ obs' = [obs EXCEPT ![c] = ob]
                  /\ UNCHANGED tickerC
             ELSE IF rateLimiter = "ticker"
                  THEN IF GateCases(c) = {}
                       THEN /\ call' = [call EXCEPT ![c] = [cs EXCEPT !.pc = "gate"]]
                            /\ obs' = [obs EXCEPT ![c] = ob]
                            /\ UNCHANGED tickerC
                       ELSE \E k \in GateCases(c) :
                              IF k = "tick"
                              THEN /\ tickerC' = tickerC - 1
                                   /\ call' = [call EXCEPT ![c] = GatePassed(c, cs, ob)[1]]
                                   /\ obs' = [obs EXCEPT ![c] = GatePassed(c, cs, ob)[2]]
                              ELSE /\ UNCHANGED tickerC
                                   /\ call' = [call EXCEPT ![c] = GateCancelled(c, cs, ob)[1]]
                                   /\ obs' = [obs EXCEPT ![c] = GateCancelled(c, cs, ob)[2]]
                  ELSE /\ call' = [call EXCEPT ![c] = EnterLoop(c, cs, ob)[1]]
                       /\ obs' = [obs EXCEPT ![c] = EnterLoop(c, cs, ob)[2]]
                       /\ UNCHANGED tickerC
    /\ UNCHANGED <<config, fn, iter, nextTick, now, ctxDone>>

\* the calls parked in the limiter's select
GateWaiters == {c \in load.callers : call[c].pc = "gate"}

\* mutant: one tick releases every parked receiver
TickerSendBroadcast ==
    /\ rateLimiter = "ticker"
    /\ now >= nextTick
    /\ nextTick' = nextTick + client.period
                       * (1 + ((now - nextTick) \div client.period))
    /\ IF GateWaiters # {}
       THEN /\ call' = [c \in Calls |-> IF c \in GateWaiters
                                         THEN GatePassed(c, call[c], obs[c])[1]
                                         ELSE call[c]]
            /\ obs' = [c \in Calls |-> IF c \in GateWaiters
                                        THEN GatePassed(c, call[c], obs[c])[2]
                                        ELSE obs[c]]
            /\ UNCHANGED tickerC
       ELSE /\ tickerC' = 1
            /\ UNCHANGED <<call, obs>>
    /\ UNCHANGED <<config, fn, iter, now, ctxDone>>

\* the ticker fires (late at worst): the tick goes to one parked receiver,
\* else into the one-slot buffer, else it is dropped; the next tick stays on
\* the period's schedule
TickerSend ==
    /\ rateLimiter = "ticker"
    /\ now >= nextTick
    /\ nextTick' = nextTick + client.period
                       * (1 + ((now - nextTick) \div client.period))
    /\ IF GateWaiters # {}
       THEN \E c \in GateWaiters :
              /\ call' = [call EXCEPT ![c] = GatePassed(c, call[c], obs[c])[1]]
              /\ obs' = [obs EXCEPT ![c] = GatePassed(c, call[c], obs[c])[2]]
              /\ UNCHANGED tickerC
       ELSE /\ tickerC' = 1
            /\ UNCHANGED <<call, obs>>
    /\ UNCHANGED <<config, fn, iter, now, ctxDone>>

\* the caller's cancellation signal fires: a call parked in a select on
\* ctx.Done() wakes with that case and returns ctx.Err()
CtxCancel(c) ==
    /\ c \in load.cancellers
    /\ ~ctxDone[c]
    /\ call[c].pc # "done"
    /\ ctxDone' = [ctxDone EXCEPT ![c] = TRUE]
    /\ IF call[c].pc = "gate"
       THEN /\ call' = [call EXCEPT ![c] = GateCancelled(c, call[c], obs[c])[1]]
            /\ obs' = [obs EXCEPT ![c] = GateCancelled(c, call[c], obs[c])[2]]
       ELSE IF call[c].pc = "backoff"
            THEN /\ call' = [call EXCEPT ![c] = BackoffCancelled(c, call[c], obs[c])[1]]
                 /\ obs' = [obs EXCEPT ![c] = BackoffCancelled(c, call[c], obs[c])[2]]
            ELSE UNCHANGED <<call, obs>>
    /\ UNCHANGED <<config, fn, iter, tickerC, nextTick, now>>

\* time.After(backoff) fires: the call leaves the backoff select and sends
BackoffExpire(c) ==
    /\ c \in load.callers
    /\ call[c].pc = "backoff"
    /\ now >= call[c].wakeAt
    /\ LET ob == [obs[c] EXCEPT !.waited = @ + (call[c].wakeAt - obs[c].lastEnd),
                                !.waits = Append(@, call[c].wakeAt - obs[c].lastEnd),
                                !.lastEnd = 0]
       IN  /\ call' = [call EXCEPT ![c] = SendRequest(c, call[c], ob)[1]]
           /\ obs' = [obs EXCEPT ![c] = SendRequest(c, call[c], ob)[2]]
    /\ UNCHANGED <<config, fn, iter, tickerC, nextTick, now, ctxDone>>

\* the outcomes httpClient.Do may return to call c now: what the transport
\* of this run produces, the context's error only once ctx is done, and
\* nothing but that error for a request built on a done context
DoOutcomes(c) ==
    {o \in load.outcomes \cup {[kind |-> "err", status |-> 0, body |-> "ctx"]} :
        /\ (o.kind = "err" /\ o.body = "ctx") => ctxDone[c]
        /\ call[c].dead => (o.kind = "err" /\ o.body = "ctx")}

\* mutant: every returned attempt is taken off the client's retry budget
HTTPReturnSpendsRetry(c) ==
    /\ c \in load.callers
    /\ call[c].pc = "inflight"
    /\ \E o \in DoOutcomes(c) :
         LET ob == [obs[c] EXCEPT !.last = o]
         IN  /\ call' = [call EXCEPT ![c] = Classify(c, call[c], ob, o)[1]]
             /\ obs' = [obs EXCEPT ![c] = Classify(c, call[c], ob, o)[2]]
    /\ maxRetries' = maxRetries - 1
    /\ UNCHANGED <<opts, client, bearerToken, rateLimit, rateLimiter, load>>
    /\ UNCHANGED <<fn, iter, tickerC, nextTick, now, ctxDone>>

\* httpClient.Do returns and doRequest acts on the outcome
HTTPReturn(c) ==
    /\ c \in load.callers
    /\ call[c].pc = "inflight"
    /\ \E o \in DoOutcomes(c) :
         LET ob == [obs[c] EXCEPT !.last = o]
         IN  /\ call' = [call EXCEPT ![c] = Classify(c, call[c], ob, o)[1]]
             /\ obs' = [obs EXCEPT ![c] = Classify(c, call[c], ob, o)[2]]
    /\ UNCHANGED <<config, fn, iter, tickerC, nextTick, now, ctxDone>>

\* the clock advances
Tick ==
    /\ now < load.horizon
    /\ now' = now + 1
    /\ UNCHANGED <<config, fn, iter, tickerC, nextTick, ctxDone, call, obs>>

Next ==
    \/ \E c \in Calls : DoRequest(c)
    \/ TickerSend
    \/ \E c \in Calls : CtxCancel(c)
    \/ \E c \in Calls : BackoffExpire(c)
    \/ \E c \in Calls : HTTPReturn(c)
    \/ Tick

Spec == Init /\ [][Next]_vars


\* concurrent callers of one client whose transport always answers 200:
\* the runs in which the calls contend for the limiter
InitRate ==
    /\ \E rate \in 1..MaxRateCfg :
          /\ Constructible(rate)
          /\ ClientOf("tok", 0, rate)
    /\ load = [callers |-> Calls, urls |-> {"ok"}, cancellers |-> {1},
               outcomes |-> {o \in Responses : o.status = 200 /\ o.body = "b1"},
               horizon |-> MaxTimeRate]
    /\ NoIterator

\* no call of these runs reaches a backoff
NextRate ==
    \/ \E c \in Calls : DoRequest(c)
    \/ TickerSend
    \/ \E c \in Calls : CtxCancel(c)
    \/ \E c \in Calls : HTTPReturn(c)
    \/ Tick

SpecRate == InitRate /\ [][NextRate]_vars

\* 1*1 + 2*2 + ... + n*n
RECURSIVE SumSquares(_)
SumSquares(n) == IF n <= 0 THEN 0 ELSE n * n + SumSquares(n - 1)

\* one call of the default client (three retries, no rate limit) against a
\* server that answers 200 or 500, long enough for every backoff to elapse
InitBackoff ==
    /\ ClientOf("tok", DefaultMaxRetries, 0)
    /\ load = [callers |-> {1}, urls |-> {"ok"}, cancellers |-> {},
               outcomes |-> {o \in Responses : o.status \in {200, 500}},
               horizon |-> SumSquares(DefaultMaxRetries) * Second + 1]
    /\ NoIterator

NextBackoff ==
    \/ DoRequest(1)
    \/ HTTPReturn(1)
    \/ BackoffExpire(1)
    \/ Tick

SpecBackoff == InitBackoff /\ [][NextBackoff]_vars

\* ---- the runs in which what a call waits for happens.  One call, one
\* outcome of each class; the clock advances only while the call waits for
\* the ticker or for its backoff timer, which bounds the time a call takes
InitLive ==
    /\ \E tok \in {"", "tok"}, retries \in -1..MaxRetriesCfg, rate \in -1..MaxRateCfg :
          /\ Constructible(rate)
          /\ ClientOf(tok, retries, rate)
    /\ load = [callers |-> {1}, urls |-> {"ok", "bad"}, cancellers |-> {1},
               outcomes |-> {o \in Outcomes :
                               \/ o.kind = "err"
                               \/ o.body = "b1" /\ o.status \in {200, 404, 429, 500}},
               horizon |-> (SumSquares(MaxRetriesCfg) + 1) * Second]
    /\ NoIterator

\* a call is parked in a select whose timer or tick is still to come
TimerPending ==
    \E c \in load.callers :
        \/ call[c].pc = "backoff" /\ now < call[c].wakeAt
        \/ call[c].pc = "gate" /\ now < nextTick

\* time passes while a call waits for it
TickWaiting == TimerPending /\ Tick

NextLive ==
    \/ DoRequest(1)
    \/ TickerSend
    \/ CtxCancel(1)
    \/ BackoffExpire(1)
    \/ HTTPReturn(1)
    \/ TickWaiting

\* the transport returns, an expired timer wakes its select, the ticker
\* sends its tick and time passes
Fairness ==
    /\ WF_vars(HTTPReturn(1))
    /\ WF_vars(BackoffExpire(1))
    /\ WF_vars(TickerSend)
    /\ WF_vars(TickWaiting)

SpecLive == InitLive /\ [][NextLive]_vars /\ Fairness

\* GetRecord and the other typed fetches after doRequest has returned:
\* they pass its error on, else read the body and decode it
FetchReturn(c) ==
    /\ c \in load.callers
    /\ call[c].pc = "done"
    /\ IF call[c].ret.kind # "ok"
       THEN call' = [call EXCEPT ![c].pc = "returned",
                                 ![c].res = [value |-> NilValue, err |-> call[c].ret]]
       ELSE \/ call' = [call EXCEPT ![c].pc = "returned",
                                    ![c].res = [value |-> NilValue, err |-> ReadError]]
            \/ call' = [call EXCEPT ![c].pc = "returned",
                                    ![c].res = Decoded(client.contentType,
                                                       call[c].ret.body)]
    /\ UNCHANGED <<config, fn, iter, tickerC, nextTick, now, ctxDone, obs>>

\* every list of at most MaxOpts options
OptLists == UNION {[1..n -> Options] : n \in 0..MaxOpts}

\* one typed fetch on a client built from any list of options; the
\* transport answers 200 or 404
InitOpts ==
    /\ \E os \in OptLists : Constructed(os, NewClient(os))
    /\ load = [callers |-> {1}, urls |-> {"ok"}, cancellers |-> {},
               outcomes |-> {o \in Responses : o.status \in {200, 404}},
               horizon |-> MaxTimeOpts]
    /\ NoIterator

\* a NewClient that panicked has returned no client to call
NextOpts ==
    \/ ~client.panicked /\ DoRequest(1)
    \/ ~client.panicked /\ TickerSend
    \/ ~client.panicked /\ HTTPReturn(1)
    \/ ~client.panicked /\ FetchReturn(1)
    \/ ~client.panicked /\ Tick

SpecOpts == InitOpts /\ [][NextOpts]_vars

\* ------------------------------------------- functions without side effects
\* the searches built: any query of at most two characters, start and rows
SearchInputs ==
    [query : UNION {[1..n -> QueryChars] : n \in 0..2},
     start : {-1, 0, 1, 10}, rows : RowsValues]

\* the client builds a search URL
CallBuildSearchURL ==
    /\ fn.op = "none"
    /\ \E params \in SearchInputs :
          fn' = [op |-> "buildSearchURL", in |-> params,
                 out |-> SearchURL(client.apiURL, params)]
    /\ UNCHANGED <<config, tickerC, nextTick, now, ctxDone, call, obs, si, it>>

\* ---- GetByPath.  A string is a sequence of letters; a letter is "/" or a
\* word that holds no "/"
\* strings.TrimPrefix(s, "/")
TrimPrefix(s) == IF s # <<>> /\ Head(s) = "/" THEN Tail(s) ELSE s

\* the position of the first "/" in s, or 0
RECURSIVE IndexSlash(_, _)
IndexSlash(s, i) ==
    IF i > Len(s) THEN 0 ELSE IF s[i] = "/" THEN i ELSE IndexSlash(s, i + 1)

\* strings.SplitN(s, "/", 2)
SplitN2(s) ==
    IF IndexSlash(s, 1) = 0 THEN <<s>>
    ELSE <<SubSeq(s, 1, IndexSlash(s, 1) - 1),
           SubSeq(s, IndexSlash(s, 1) + 1, Len(s))>>

\* the resource types GetByPath passes to a fetch of the same name
DirectTypes ==
    {"person", "works", "educations", "employments", "fundings",
     "peer-reviews", "distinctions", "invited-positions", "memberships",
     "qualifications", "services", "research-resources"}
\* the resource types GetByPath answers with a part of the person
PersonParts ==
    {"biography", "other-names", "researcher-urls", "email", "address",
     "keywords", "external-identifiers"}

\* what GetByPath returns without a fetch: nil and an error
Refused(msg) ==
    [calls |-> <<>>, result |-> [kind |-> "nil", of |-> "", part |-> ""],
     err |-> msg]

\* GetByPath returns what one fetch of url returned (part = "": the whole
\* result, as the fetch returned it, a nil pointer on error), or one field
\* of its result
Fetched(url, ok, part) ==
    [calls |-> <<url>>,
     result |-> IF ok THEN [kind |-> "value", of |-> url, part |-> part]
                ELSE IF part = "" THEN [kind |-> "nilptr", of |-> "", part |-> ""]
                ELSE [kind |-> "nil", of |-> "", part |-> ""],
     err |-> IF ok THEN "" ELSE "fetch failed"]

\* fmt.Sprintf("%s/%s/<resource>", c.apiURL, orcidID)
ResourceURL(apiURL, orcidID, resource) ==
    apiURL \o <<"/">> \o orcidID \o <<"/">> \o resource

\* mutant: only the bare identifier is the record
IsRecordPathBare(parts) == Len(parts) = 1

\* len(parts) == 1 || (len(parts) == 2 && parts[1] == "record")
IsRecordPath(parts) ==
    Len(parts) = 1 \/ (Len(parts) = 2 /\ parts[2] = <<"record">>)

\* mutant: a path without an identifier is not refused
InvalidPathAccepted(parts) == FALSE

\* if len(parts) == 0 || parts[0] == ""
InvalidPath(parts) == Len(parts) = 0 \/ parts[1] = <<>>

\* if len(resourceParts) == 2
HasPutCode(resourceParts) == Len(resourceParts) = 2

\* the default case of GetByPath's switch: GetPerson is called, and an
\* error returned whatever it answers
UnsupportedType(apiURL, orcidID) ==
    [calls |-> <<ResourceURL(apiURL, orcidID, <<"person">>)>>,
     result |-> [kind |-> "nil", of |-> "", part |-> ""],
     err |-> "unsupported resource type in path"]

\* Client.GetByPath on a client with this apiURL, whose fetch succeeds (ok)
\* or fails
GetByPath(apiURL, path, ok) ==
    LET parts == SplitN2(TrimPrefix(path))
        orcidID == parts[1]
        resourceParts == SplitN2(parts[2])
        baseResource == resourceParts[1]
    IN  IF InvalidPath(parts)
        THEN Refused("invalid path")
        ELSE IF IsRecordPath(parts)
        THEN Fetched(ResourceURL(apiURL, orcidID, <<"record">>), ok, "")
        ELSE IF baseResource = <<"work">>
        THEN IF HasPutCode(resourceParts)
             THEN Fetched(ResourceURL(apiURL, orcidID,
                                      <<"work", "/">> \o resourceParts[2]), ok, "")
             ELSE Refused("work path requires put-code")
        ELSE IF \E t \in DirectTypes : baseResource = <<t>>
        THEN Fetched(ResourceURL(apiURL, orcidID, baseResource), ok, "")
        ELSE IF baseResource = <<"activities">>
        THEN Fetched(ResourceURL(apiURL, orcidID, <<"record">>), ok,
                     "ActivitiesSummary")
        ELSE IF \E t \in PersonParts : baseResource = <<t>>
        THEN Fetched(ResourceURL(apiURL, orcidID, <<"person">>), ok,
                     baseResource[1])
        ELSE UnsupportedType(apiURL, orcidID)

\* the paths explored: none, one or two leading separators, an identifier
\* or none, and then nothing, a separator, or a resource type (supported
\* or not, or empty) with or without a tail
PathTails == {<<>>, <<"/">>, <<"/", "code">>, <<"/", "code", "/", "x">>}
Paths ==
    LET PathTypes ==
            {<<t>> : t \in DirectTypes \cup PersonParts
                            \cup {"record", "work", "activities", "zzz"}} \cup {<<>>}
    IN  {lead \o id \o rest :
            lead \in {<<>>, <<"/">>, <<"/", "/">>},
            id \in {<<>>, <<"id">>},
            rest \in {<<>>} \cup {<<"/">> \o t \o tail :
                                      t \in PathTypes, tail \in PathTails}}

\* GetByPath is called; its fetch, if it makes one, succeeds or fails
CallGetByPath ==
    /\ fn.op = "none"
    /\ \E path \in Paths, ok \in BOOLEAN :
          fn' = [op |-> "GetByPath", in |-> [path |-> path, ok |-> ok],
                 out |-> GetByPath(client.apiURL, path, ok)]
    /\ UNCHANGED <<config, tickerC, nextTick, now, ctxDone, call, obs, si, it>>

\* ---- ORCID iD helpers.  A string is a sequence of one-character strings
DigitChars == <<"0", "1", "2", "3", "4", "5", "6", "7", "8", "9">>
IsDigit(ch) == \E n \in 1..Len(DigitChars) : DigitChars[n] = ch
\* strings.TrimSpace(s): the white space removed is " " and "\n"
RECURSIVE TrimSpace(_)
TrimSpace(s) ==
    IF s = <<>> THEN s
    ELSE IF Head(s) \in {" ", "\n"} THEN TrimSpace(Tail(s))
    ELSE IF s[Len(s)] \in {" ", "\n"} THEN TrimSpace(SubSeq(s, 1, Len(s) - 1))
    ELSE s

\* strings.HasPrefix(s, prefix)
HasPrefix(s, prefix) ==
    Len(s) >= Len(prefix) /\ SubSeq(s, 1, Len(prefix)) = prefix

\* parts[len(parts)-1] of strings.Split(s, "/"): what follows the last "/"
RECURSIVE LastPart(_)
LastPart(s) ==
    IF \E i \in 1..Len(s) : s[i] = "/"
    THEN LastPart(SubSeq(s, IndexSlash(s, 1) + 1, Len(s)))
    ELSE s

HttpPrefix == <<"h", "t", "t", "p", ":", "/", "/">>
HttpsPrefix == <<"h", "t", "t", "p", "s", ":", "/", "/">>

\* both branches return the last part of the trimmed input
ParseOrcidID(input) ==
    LET trimmed == TrimSpace(input)
    IN  IF HasPrefix(trimmed, HttpPrefix) \/ HasPrefix(trimmed, HttpsPrefix)
        THEN LastPart(trimmed)
        ELSE LastPart(trimmed)

\* strings.ReplaceAll(s, "-", "")
RemoveHyphens(s) == SelectSeq(s, LAMBDA ch : ch # "-")

\* strconv.Atoi of one character, its error dropped: 0 for what is no digit
Atoi(ch) ==
    IF IsDigit(ch) THEN (CHOOSE n \in 1..Len(DigitChars) : DigitChars[n] = ch) - 1
    ELSE 0
\* strconv.Itoa of 0..9
Itoa(n) == DigitChars[n + 1]

\* the loop of isValidChecksum from index i (counted from 0) on
RECURSIVE ChecksumTotal(_, _, _)
ChecksumTotal(orcid, i, total) ==
    IF i >= 15 THEN total
    ELSE ChecksumTotal(orcid, i + 1, (total + Atoi(orcid[i + 1])) * 2)

isValidChecksumNoX(orcid) ==
    LET remainder == ChecksumTotal(orcid, 0, 0) % 11
        result == (12 - remainder) % 11
    IN  orcid[16] = Itoa(result % 10)
isValidChecksum(orcid) ==
    LET remainder == ChecksumTotal(orcid, 0, 0) % 11
        result == (12 - remainder) % 11
        checkDigit == orcid[16]
    IN  IF result = 10 THEN checkDigit = "X" ELSE checkDigit = Itoa(result)

\* the error ValidateOrcidID returns, "" for nil
ValidateOrcidID(input) ==
    LET orcid == RemoveHyphens(ParseOrcidID(input))
    IN  IF Len(orcid) # 16 THEN "invalid ORCID iD length"
        ELSE IF \E i \in 1..15 : ~IsDigit(orcid[i])
             THEN "invalid character in ORCID iD"
        ELSE IF ~IsDigit(orcid[16]) /\ orcid[16] # "X"
             THEN "invalid check digit in ORCID iD"
        ELSE IF ~isValidChecksum(orcid) THEN "invalid ORCID iD checksum"
        ELSE ""

\* the iDs tried: thirteen fixed digits, two free ones, any last character
OrcidStem == <<"0", "0", "0", "0", "0", "0", "0", "2", "1", "8", "2", "5", "0">>
\* 0000-0000-0000-0000
Hyphenated(c) ==
    SubSeq(c, 1, 4) \o <<"-">> \o SubSeq(c, 5, 8) \o <<"-">>
        \o SubSeq(c, 9, 12) \o <<"-">> \o SubSeq(c, 13, 16)
OrcidHost == <<"o", "r", "c", "i", "d", ".", "o", "r", "g", "/">>
\* each iD bare, hyphenated, as a URL, with white space around or inside,
\* with a "/" after it, too short, too long, and with a letter among its digits
OrcidInputs ==
    LET Digits == {DigitChars[n] : n \in 1..Len(DigitChars)}
        OrcidCores ==
            {OrcidStem \o <<a, b, ch>> :
                a \in {"0", "7"}, b \in Digits, ch \in Digits \cup {"X", "x"}}
    IN
    {<<>>} \cup UNION {
        {c, Hyphenated(c),
         HttpsPrefix \o OrcidHost \o Hyphenated(c),
         HttpPrefix \o OrcidHost \o c,
         OrcidHost \o Hyphenated(c),
         <<" ">> \o Hyphenated(c),
         Hyphenated(c) \o <<"\n">>,
         <<" ">> \o HttpsPrefix \o OrcidHost \o Hyphenated(c) \o <<" ">>,
         HttpsPrefix \o OrcidHost \o <<" ">> \o Hyphenated(c),
         SubSeq(c, 1, 8) \o <<" ">> \o SubSeq(c, 9, 16),
         <<"-", "-">> \o c \o <<"-">>,
         Hyphenated(c) \o <<"/">>,
         SubSeq(c, 1, 15),
         <<"0">> \o c,
         c \o <<"0">>,
         [c EXCEPT ![3] = "a"],
         [c EXCEPT ![15] = "X"]} : c \in OrcidCores}

\* an iD is validated
CallValidateOrcidID ==
    /\ fn.op = "none"
    /\ \E input \in OrcidInputs :
          fn' = [op |-> "ValidateOrcidID", in |-> input,
                 out |-> [err |-> ValidateOrcidID(input)]]
    /\ UNCHANGED <<config, tickerC, nextTick, now, ctxDone, call, obs, si, it>>

\* a client with the default or a configured API URL, on which one
\* function without side effects is called
InitPure ==
    /\ \E os \in {<<>>, <<[name |-> "WithAPIURL", arg |-> <<"s", "/", "/">>]>>} :
          Constructed(os, NewClient(os))
    /\ load = [callers |-> {}, urls |-> {}, cancellers |-> {}, outcomes |-> {},
               horizon |-> 0]
    /\ NoIterator

NextPure ==
    \/ CallBuildSearchURL
    \/ CallGetByPath
    \/ CallValidateOrcidID

SpecPure == InitPure /\ [][NextPure]_vars

\* ---- SearchQuery.  A string is a sequence of letters; a letter is " ",
\* a double quote or a word that holds neither
\* strings.Contains(s, " ")
ContainsSpace(s) == \E i \in 1..Len(s) : s[i] = " "
\* fmt.Sprintf("\"%s\"", s)
Quoted(s) == <<"\"">> \o s \o <<"\"">>

\* the methods that add prefix:value, and whether they quote a value that
\* holds a space
FieldMethods ==
    {[name |-> "ORCID", prefix |-> "orcid:", quotes |-> FALSE],
     [name |-> "Email", prefix |-> "email:", quotes |-> FALSE],
     [name |-> "FamilyName", prefix |-> "family-name:", quotes |-> TRUE],
     [name |-> "GivenNames", prefix |-> "given-names:", quotes |-> TRUE],
     [name |-> "CreditName", prefix |-> "credit-name:", quotes |-> TRUE],
     [name |-> "OtherNames", prefix |-> "other-names:", quotes |-> TRUE],
     [name |-> "Keyword", prefix |-> "keyword:", quotes |-> TRUE],
     [name |-> "ExternalIdentifier",
      prefix |-> "external-identifier-type-and-value:", quotes |-> FALSE],
     [name |-> "DOI", prefix |-> "doi-self:", quotes |-> FALSE],
     [name |-> "PersonalDetails", prefix |-> "personal-details:", quotes |-> TRUE],
     [name |-> "Biography", prefix |-> "biography:", quotes |-> TRUE],
     [name |-> "WorkTitle", prefix |-> "work-titles:", quotes |-> TRUE],
     [name |-> "FundingTitle", prefix |-> "funding-titles:", quotes |-> TRUE],
     [name |-> "AffiliationOrganization", prefix |-> "affiliation-org-name:",
      quotes |-> TRUE],
     [name |-> "RINGGOLD", prefix |-> "ringgold-org-id:", quotes |-> FALSE],
     [name |-> "GRID", prefix |-> "grid-org-id:", quotes |-> FALSE],
     [name |-> "ROR", prefix |-> "ror-org-id:", quotes |-> FALSE],
     [name |-> "FundRef", prefix |-> "fundref-org-id:", quotes |-> FALSE]}
\* And(), Or(), Not()
OperatorMethods ==
    {[name |-> "And", word |-> "AND"], [name |-> "Or", word |-> "OR"],
     [name |-> "Not", word |-> "NOT"]}

\* NewSearchQuery()
NewSearchQuery ==
    [queryParts |-> <<>>, params |-> [Query |-> <<>>, Start |-> 0, Rows |-> 10]]

\* sq.queryParts = append(sq.queryParts, part)
AppendPart(sq, part) == [sq EXCEPT !.queryParts = Append(@, part)]

\* the part a field method adds for value
FieldPart(m, value) ==
    IF m.quotes /\ ContainsSpace(value)
    THEN <<m.prefix>> \o Quoted(value)
    ELSE <<m.prefix>> \o value

\* strings.Join(parts, sep)
RECURSIVE Join(_, _)
Join(parts, sep) ==
    IF parts = <<>> THEN <<>>
    ELSE IF Len(parts) = 1 THEN parts[1]
    ELSE parts[1] \o sep \o Join(Tail(parts), sep)

\* Build stores the joined parts in sq.params.Query and returns sq.params
BuildAppends(sq) ==
    [sq EXCEPT !.params.Query = @ \o Join(sq.queryParts, <<" ">>)]
Build(sq) == [sq EXCEPT !.params.Query = Join(sq.queryParts, <<" ">>)]

\* the values given to the field methods and to RawQuery
QueryValues == {<<"a">>, <<"a", " ", "b">>}

\* the query on which calls are made, the calls made and what Build returned
OnQuery(log, sq, built) ==
    [op |-> "SearchQuery", in |-> log, out |-> [sq |-> sq, built |-> built]]
\* fewer than MaxQueryCalls additions have been made
MayAdd ==
    /\ fn.op = "SearchQuery"
    /\ Cardinality({i \in 1..Len(fn.in) : fn.in[i].method # "Build"}) < MaxQueryCalls

SqNew ==
    /\ fn.op = "none"
    /\ fn' = OnQuery(<<>>, NewSearchQuery, <<>>)
    /\ UNCHANGED <<config, tickerC, nextTick, now, ctxDone, call, obs, si, it>>

SqField ==
    /\ MayAdd
    /\ \E m \in FieldMethods, value \in QueryValues :
          fn' = OnQuery(Append(fn.in, [method |-> m.name, arg |-> value, n |-> 0]),
                        AppendPart(fn.out.sq, FieldPart(m, value)), fn.out.built)
    /\ UNCHANGED <<config, tickerC, nextTick, now, ctxDone, call, obs, si, it>>

SqRawQuery ==
    /\ MayAdd
    /\ \E value \in QueryValues :
          fn' = OnQuery(Append(fn.in, [method |-> "RawQuery", arg |-> value, n |-> 0]),
                        AppendPart(fn.out.sq, value), fn.out.built)
    /\ UNCHANGED <<config, tickerC, nextTick, now, ctxDone, call, obs, si, it>>

SqOperator ==
    /\ MayAdd
    /\ \E m \in OperatorMethods :
          fn' = OnQuery(Append(fn.in, [method |-> m.name, arg |-> <<>>, n |-> 0]),
                        AppendPart(fn.out.sq, <<m.word>>), fn.out.built)
    /\ UNCHANGED <<config, tickerC, nextTick, now, ctxDone, call, obs, si, it>>

SqWithStart ==
    /\ MayAdd
    /\ \E start \in {0, 1} :
          fn' = OnQuery(Append(fn.in, [method |-> "WithStart", arg |-> <<>>, n |-> start]),
                        [fn.out.sq EXCEPT !.params.Start = start], fn.out.built)
    /\ UNCHANGED <<config, tickerC, nextTick, now, ctxDone, call, obs, si, it>>

SqWithRows ==
    /\ MayAdd
    /\ \E rows \in {0, 5} :
          fn' = OnQuery(Append(fn.in, [method |-> "WithRows", arg |-> <<>>, n |-> rows]),
                        [fn.out.sq EXCEPT !.params.Rows = rows], fn.out.built)
    /\ UNCHANGED <<config, tickerC, nextTick, now, ctxDone, call, obs, si, it>>

\* Build is called, twice at most
SqBuild ==
    /\ fn.op = "SearchQuery"
    /\ Len(fn.out.built) < 2
    /\ fn' = OnQuery(Append(fn.in, [method |-> "Build", arg |-> <<>>, n |-> 0]),
                     Build(fn.out.sq), Append(fn.out.built, Build(fn.out.sq).params))
    /\ UNCHANGED <<config, tickerC, nextTick, now, ctxDone, call, obs, si, it>>

NextQuery ==
    \/ SqNew
    \/ SqField
    \/ SqRawQuery
    \/ SqOperator
    \/ SqWithStart
    \/ SqWithRows
    \/ SqBuild

InitQuery ==
    /\ Constructed(<<>>, NewClient(<<>>))
    /\ load = [callers |-> {}, urls |-> {}, cancellers |-> {}, outcomes |-> {},
               horizon |-> 0]
    /\ NoIterator

SpecQuery == InitQuery /\ [][NextQuery]_vars

\* ------------------------------------------------- the iterator's actions
\* SearchIterator.Next up to its return or to its call of Client.Search
SiNext ==
    /\ it.pc = "ready"
    /\ it.nexts < MaxNexts
    /\ LET log == [it EXCEPT !.nexts = @ + 1]
           adv == IF si.batch # NoBatch THEN AdvanceStart(si) ELSE si
           req == [start |-> adv.start, rows |-> adv.rows,
                   url |-> BuildSearchURL(adv.start, adv.rows)]
       IN  IF HasFailed(si)
           THEN /\ si' = si
                /\ it' = [log EXCEPT !.last = "false"]
                /\ UNCHANGED call
           ELSE IF CtxFired(IterCall)
           THEN /\ si' = [si EXCEPT !.err = Cancelled]
                /\ it' = [log EXCEPT !.last = "false"]
                /\ UNCHANGED call
           ELSE IF ~NeedsFetch(si)
           THEN /\ si' = StepIndex(si)[1]
                /\ it' = [log EXCEPT
                            !.last = IF StepIndex(si)[2] THEN "true" ELSE "false",
                            !.yielded = IF StepIndex(si)[2]
                                        THEN Append(@, Value(StepIndex(si)[1]))
                                        ELSE @]
                /\ UNCHANGED call
           ELSE IF si.batch # NoBatch /\ AtEnd(si)
           THEN /\ si' = si
                /\ it' = [log EXCEPT !.last = "false"]
                /\ UNCHANGED call
           ELSE /\ Len(it.fetches) < MaxFetches
                /\ si' = adv
                /\ it' = [log EXCEPT !.pc = "fetching",
                                     !.fetches = Append(@, req)]
                /\ call' = [call EXCEPT ![IterCall] = IdleCall]
    /\ UNCHANGED <<config, fn, tickerC, nextTick, now, ctxDone, obs>>

\* what Client.Search makes of doRequest's 200 response: a read error, a
\* decode error, or the page the server sent
SearchResults(id) == {ReadError, DecodeError} \cup Pages(id)

\* Client.Search returns to Next, and Next runs to its return
SiSearchReturn ==
    /\ it.pc = "fetching"
    /\ call[IterCall].pc = "done"
    /\ IF call[IterCall].ret.kind # "ok"
       THEN /\ si' = [si EXCEPT !.err = call[IterCall].ret]
            /\ it' = [it EXCEPT !.pc = "ready", !.last = "false"]
       ELSE \E r \in SearchResults(Len(it.fetches)) :
              IF r \in {ReadError, DecodeError}
              THEN /\ si' = [si EXCEPT !.err = r]
                   /\ it' = [it EXCEPT !.pc = "ready", !.last = "false"]
              ELSE LET e == EnterPage(AcceptPage(si, r))
                   IN  /\ si' = e[1]
                       /\ it' = [it EXCEPT
                                   !.pc = "ready",
                                   !.pages = Append(@, r),
                                   !.last = IF e[2] THEN "true" ELSE "false",
                                   !.yielded = IF e[2] THEN Append(@, Value(e[1]))
                                               ELSE @]
    /\ call' = [call EXCEPT ![IterCall] = IdleCall]
    /\ UNCHANGED <<config, fn, tickerC, nextTick, now, ctxDone, obs>>

\* one iterator over a client that does not retry; the transport answers
\* 200 or 404, the server sends pages of any length and any total
InitIter ==
    /\ \E rate \in {0, MaxRateCfg} : ClientOf("tok", 0, rate)
    /\ load = [callers |-> {IterCall}, urls |-> {"ok"}, cancellers |-> {IterCall},
               outcomes |-> {o \in Responses :
                               o.status \in {200, 404} /\ o.body = "b1"},
               horizon |-> MaxTimeIter]
    /\ \E start \in StartValues, rows \in RowsValues :
          /\ si = SearchIter(start, rows)
          /\ it = [NoLog EXCEPT !.pc = "ready",
                                !.params = [start |-> start, rows |-> rows]]
    /\ fn = NoCall

\* the searches of the iterator are the only calls of these runs
NextIter ==
    \/ SiNext
    \/ it.pc = "fetching" /\ DoRequest(IterCall)
    \/ TickerSend
    \/ CtxCancel(IterCall)
    \/ HTTPReturn(IterCall)
    \/ SiSearchReturn
    \/ Tick

SpecIter == InitIter /\ [][NextIter]_vars


\* ---- the accessors, called by the iterator's caller between Next calls
\* mutant: Value() steps to the next record of the page
SiValueAdvances ==
    /\ it.pc = "ready"
    /\ fn' = [op |-> "Value", in |-> <<>>, out |-> [value |-> Value(si)]]
    /\ si' = [si EXCEPT !.index = @ + 1]
    /\ UNCHANGED <<config, tickerC, nextTick, now, ctxDone, call, obs, it>>

\* the caller calls Value()
SiValue ==
    /\ it.pc = "ready"
    /\ fn' = [op |-> "Value", in |-> <<>>, out |-> [value |-> Value(si)]]
    /\ UNCHANGED <<config, tickerC, nextTick, now, ctxDone, call, obs, si, it>>

\* the caller calls Error()
SiError ==
    /\ it.pc = "ready"
    /\ fn' = [op |-> "Error", in |-> <<>>, out |-> [err |-> Error(si)]]
    /\ UNCHANGED <<config, tickerC, nextTick, now, ctxDone, call, obs, si, it>>

\* the caller calls TotalResults()
SiTotalResults ==
    /\ it.pc = "ready"
    /\ fn' = [op |-> "TotalResults", in |-> <<>>, out |-> [total |-> TotalResults(si)]]
    /\ UNCHANGED <<config, tickerC, nextTick, now, ctxDone, call, obs, si, it>>

\* one iterator with pages of two rows, on a client without limiter
InitAccess ==
    /\ ClientOf("tok", 0, 0)
    /\ load = [callers |-> {IterCall}, urls |-> {"ok"}, cancellers |-> {IterCall},
               outcomes |-> {o \in Responses :
                               o.status \in {200, 404} /\ o.body = "b1"},
               horizon |-> 0]
    /\ si = SearchIter(0, 2)
    /\ it = [NoLog EXCEPT !.pc = "ready", !.params = [start |-> 0, rows |-> 2]]
    /\ fn = NoCall

NextAccess ==
    \/ SiNext
    \/ it.pc = "fetching" /\ DoRequest(IterCall)
    \/ CtxCancel(IterCall)
    \/ HTTPReturn(IterCall)
    \/ SiSearchReturn
    \/ SiValue
    \/ SiError
    \/ SiTotalResults

SpecAccess == InitAccess /\ [][NextAccess]_vars


\* ================================================================= claims
Done(c) == call[c].pc = "done"
HasToken == bearerToken # ""

\* the outcome classes as the specification words them
RetryableOutcome(o) ==
    \/ o.kind = "err"
    \/ o.kind = "resp" /\ (o.status \in {408, 429} \/ o.status \in 500..599)
SuccessOutcome(o) == o.kind = "resp" /\ o.status = 200
TerminalOutcome(o) ==
    o.kind = "resp" /\ ~SuccessOutcome(o) /\ ~RetryableOutcome(o)

RECURSIVE SumPermits(_)
SumPermits(n) == IF n = 0 THEN 0 ELSE obs[n].permits + SumPermits(n - 1)
\* permits the limiter has granted so far, over all calls
PermitsGranted == SumPermits(NumCalls)


\* C1: without a bearer token every call returns MissingCredential at once:
\* it never waits at the limiter, consumes no permit and never reaches the
\* transport, whatever the rate limit and maxRetries.
C1_MissingCredentialFirst ==
    bearerToken = "" =>
        \A c \in load.callers :
            /\ call[c].pc \in {"idle", "done"}
            /\ Done(c) => call[c].ret = MissingCredential
            /\ obs[c].attempts = 0
            /\ obs[c].permits = 0
            /\ obs[c].gate = "none"

\* a call without a token has returned although a tick was ready for it and
\* its context was cancelled
C1_Witness ==
    \E c \in load.callers :
        /\ call[c].ret = MissingCredential
        /\ rateLimiter = "ticker" /\ tickerC = 1
        /\ obs[c].preDone

\* C2: with maxRetries = R >= 0, a token and no cancellation, a call whose
\* every attempt ends retryably makes exactly R+1 attempts and returns
\* RetriesExhausted; no call makes more than R+1 attempts.
C2_ExhaustsAfterRPlus1 ==
    \A c \in load.callers :
        (HasToken /\ maxRetries >= 0 /\ ~ctxDone[c]) =>
            /\ obs[c].attempts <= maxRetries + 1
            /\ (Done(c) /\ obs[c].attempts >= 1 /\ RetryableOutcome(obs[c].last)) =>
                   /\ call[c].ret.kind = "RetriesExhausted"
                   /\ obs[c].attempts = maxRetries + 1
            /\ call[c].ret.kind = "RetriesExhausted" =>
                   /\ obs[c].attempts = maxRetries + 1
                   /\ RetryableOutcome(obs[c].last)

C2_Witness ==
    \E c \in load.callers :
        /\ ~ctxDone[c]
        /\ maxRetries = 2
        /\ call[c].ret.kind = "RetriesExhausted"
        /\ obs[c].attempts = 3

\* C3: when attempts 1..k-1 end retryably and attempt k answers 200 (k <= R+1,
\* no cancellation), the call returns success with that response after
\* exactly k attempts.
C3_SuccessOnAttemptK ==
    \A c \in load.callers :
        (HasToken /\ ~ctxDone[c] /\ SuccessOutcome(obs[c].last)) =>
            /\ Done(c)
            /\ call[c].ret = Success(obs[c].last)
            /\ obs[c].attempts = call[c].attempt + 1
            /\ obs[c].attempts <= maxRetries + 1

\* success on the third attempt of a call with maxRetries = 2
C3_Witness ==
    \E c \in load.callers :
        /\ ~ctxDone[c]
        /\ call[c].ret.kind = "ok"
        /\ obs[c].attempts = 3
        /\ maxRetries = 2

\* C4: a non-retryable non-200 status on any attempt ends the call at that
\* attempt with RemoteRejected carrying that status and body.
C4_TerminalStopsCall ==
    \A c \in load.callers :
        TerminalOutcome(obs[c].last) =>
            /\ Done(c)
            /\ call[c].ret = RemoteRejected(obs[c].last)
            /\ obs[c].attempts = call[c].attempt + 1
            /\ (call[c].attempt = 0 => obs[c].attempts = 1)

\* a 404 on a retry (the second attempt)
C4_Witness ==
    \E c \in load.callers :
        /\ call[c].ret.kind = "RemoteRejected"
        /\ call[c].ret.status = 404
        /\ call[c].ret.body = "b2"
        /\ obs[c].attempts = 2

\* C5: an attempt's outcome is a success iff its status is 200, retryable iff
\* the transport failed or the status is 429, 408 or 5xx, and terminal (never
\* retried) otherwise.
C5_Classification ==
    \A c \in load.callers :
        /\ call[c].ret.kind = "ok" <=> SuccessOutcome(obs[c].last)
        /\ call[c].ret.kind = "RemoteRejected" <=> TerminalOutcome(obs[c].last)
        /\ RetryableOutcome(obs[c].last) =>
               \/ call[c].pc \in {"backoff", "inflight"}
               \/ call[c].ret.kind \in {"RetriesExhausted", "Cancelled"}
        /\ (obs[c].last.kind = "resp" /\ obs[c].last.status \in {201, 304, 404, 499, 600})
               => call[c].ret.kind = "RemoteRejected"

\* status 600, just past the 5xx range, ended a call that could still retry
C5_Witness ==
    \E c \in load.callers :
        /\ obs[c].last.kind = "resp" /\ obs[c].last.status = 600
        /\ call[c].ret.kind = "RemoteRejected"
        /\ call[c].attempt < maxRetries


\* C6: on a client with a limiter a permit is acquired before every physical
\* attempt, so a call that has made m attempts has consumed m permits.
C6_PermitPerAttempt ==
    \A c \in load.callers :
        (rateLimiter = "ticker" /\ obs[c].attempts >= 1) =>
            obs[c].permits = obs[c].attempts

\* C7 as stated: the k-th permit is granted no earlier than k/N seconds after
\* the limiter was created, so 2N calls take at least 2 seconds.
C7_KOverNSeconds ==
    rateLimiter = "ticker" => PermitsGranted * Second <= rateLimit * now

\* C7: all calls share the one limiter; the k-th permit is granted no earlier
\* than k ticker periods (one period is Second \div N) after the limiter was
\* created, and the permits granted plus the tick held in the one-slot buffer
\* never exceed the ticks that have come due, so no tick admits two calls.
C7_OnePermitPerPeriod ==
    rateLimiter = "ticker" =>
        /\ PermitsGranted * (Second \div rateLimit) <= now
        /\ tickerC \in {0, 1}
        /\ PermitsGranted + tickerC <= now \div (Second \div rateLimit)
        /\ \A c \in load.callers : obs[c].attempts >= 1 => obs[c].permits >= 1

\* 2N concurrent calls (N = 2) have all passed the gate, at the earliest
\* time the ticker allows
C7_Witness ==
    /\ rateLimit = 2
    /\ PermitsGranted = 2 * rateLimit
    /\ now = 2 * rateLimit * (Second \div rateLimit)

\* C8: a call started after its cancellation signal fired returns Cancelled
\* and never invokes the transport, with the limiter on or off, with or
\* without a tick ready, for every maxRetries >= 0.
C8_PreCancelledNoTransport ==
    \A c \in load.callers :
        (HasToken /\ maxRetries >= 0 /\ obs[c].preDone) =>
            /\ obs[c].attempts = 0
            /\ Done(c) => call[c].ret = Cancelled

\* C9: a call parked at the limiter with no tick available whose signal
\* fires returns Cancelled at once, and a call that left the limiter's
\* select through ctx.Done() has made no attempt and holds no permit.
C9_GateWaitCancellable ==
    /\ [](\A c \in load.callers :
            obs[c].gate = "done" =>
                /\ Done(c)
                /\ call[c].ret = Cancelled
                /\ obs[c].attempts = 0
                /\ obs[c].permits = 0)
    /\ [][\A c \in load.callers :
            (call[c].pc = "gate" /\ ~ctxDone[c] /\ ctxDone'[c]) =>
                /\ call'[c].pc = "done"
                /\ call'[c].ret = Cancelled
                /\ obs'[c].attempts = 0
                /\ tickerC' = tickerC]_vars

\* a call that found neither case ready, parked, and was then cancelled
C9_Witness ==
    \E c \in load.callers :
        /\ obs[c].gate = "done"
        /\ ~obs[c].preDone
        /\ Done(c)
        /\ tickerC = 0

C11_BackoffWaitCancellable ==
    /\ [](\A c \in load.callers :
            obs[c].woke = "done" =>
                /\ Done(c)
                /\ call[c].ret = Cancelled
                /\ RetryableOutcome(obs[c].last)
                /\ obs[c].attempts = call[c].attempt)
    /\ [][\A c \in load.callers :
            (call[c].pc = "backoff" /\ ~ctxDone[c] /\ ctxDone'[c]) =>
                /\ call'[c].pc = "done"
                /\ call'[c].ret = Cancelled
                /\ obs'[c].attempts = obs[c].attempts]_vars

\* cancelled in the second backoff, after two attempts that answered 5xx
C11_Witness ==
    \E c \in load.callers :
        /\ obs[c].woke = "done"
        /\ call[c].ret = Cancelled
        /\ obs[c].attempts = 2
        /\ obs[c].last.kind = "resp" /\ obs[c].last.status = 500

\* C12: when the signal fires during a transport call and the transport
\* fails with the context's error, the call returns Cancelled and starts no
\* further attempt, on every attempt including the last permitted one.
C12_InFlightCancelReturnsCancelled ==
    \A c \in load.callers :
        (HasToken /\ maxRetries >= 0 /\ Done(c)
            /\ obs[c].last.kind = "err" /\ obs[c].last.body = "ctx"
            /\ ~obs[c].preDone) =>
                call[c].ret = Cancelled

\* ------------------------------------------------- claims on the iterator
Last(q) == q[Len(q)]
\* Error() reports a failure
Failed == Error(si) # NoRet
\* a Next call has returned false on an iterator that has not failed
Drained == it.pc = "ready" /\ it.last = "false" /\ ~Failed
\* this step is the beginning of a Next call
NextBegins == it.pc = "ready" /\ it'.nexts = it.nexts + 1
\* this step starts a search
FetchStarts == it'.fetches # it.fetches

\* the records of one page, in order
RECURSIVE RecordsOf(_, _)
RecordsOf(page, k) ==
    IF k = 0 THEN <<>>
    ELSE Append(RecordsOf(page, k - 1), [page |-> page.id, idx |-> k - 1])
\* the records of the first k pages, in order
RECURSIVE AllRecords(_, _)
AllRecords(pages, k) ==
    IF k = 0 THEN <<>>
    ELSE AllRecords(pages, k - 1) \o RecordsOf(pages[k], pages[k].n)
IsPrefix(p, q) == Len(p) <= Len(q) /\ \A i \in 1..Len(p) : p[i] = q[i]

\* C13: a failed iterator stays failed: every later Next returns false,
\* starts no search, consumes no permit, and Error() keeps reporting the
\* same failure.
C13_FailedIsSticky ==
    /\ [](Failed => it.pc = "ready" /\ it.last = "false")
    /\ [][Failed =>
            /\ Error(si') = Error(si)
            /\ si' = si
            /\ it'.fetches = it.fetches
            /\ it'.yielded = it.yielded
            /\ it'.last = "false"
            /\ call' = call
            /\ obs' = obs]_vars

\* the first search was refused with a 404 and two more Next calls were made
C13_Witness ==
    /\ si.err.kind = "RemoteRejected"
    /\ it.nexts = 3
    /\ Len(it.fetches) = 1

\* C14: a Next call that finds the context done on an iterator that has not
\* failed sets the failure to Cancelled and returns false without a search,
\* whatever records of the current page are still unread.
C14_CancelledAtEntry ==
    [][(NextBegins /\ ~Failed /\ ctxDone[IterCall]) =>
         /\ si' = [si EXCEPT !.err = Cancelled]
         /\ it'.pc = "ready"
         /\ it'.last = "false"
         /\ ~FetchStarts
         /\ it'.yielded = it.yielded
         /\ call' = call
         /\ obs' = obs]_vars

\* Next returned false with Cancelled while a record of the page was unread
C14_Witness ==
    /\ si.err = Cancelled
    /\ it.pc = "ready" /\ it.last = "false"
    /\ si.batch # NoBatch
    /\ si.index + 1 < si.batch.n

\* C15: once a page has been received, a Next call (context live, iterator
\* not failed) starts a search exactly when the page is used up and
\* offset + rows < total, rows being the requested page size; when the page
\* is used up and offset + rows >= total it returns false, starts nothing
\* and leaves the offset; a search it starts is for offset + rows, which
\* becomes the offset.
C15_FetchNextPage ==
    [][(NextBegins /\ ~Failed /\ ~ctxDone[IterCall] /\ si.batch # NoBatch) =>
         LET usedUp == si.index + 1 >= si.batch.n
         IN  /\ FetchStarts <=> (usedUp /\ si.start + si.rows < si.total)
             /\ (usedUp /\ si.start + si.rows >= si.total) =>
                    /\ it'.last = "false" /\ it'.pc = "ready"
                    /\ si'.start = si.start
             /\ FetchStarts =>
                    /\ si'.start = si.start + si.rows
                    /\ Last(it'.fetches).start = si'.start
                    /\ Last(it'.fetches).rows = si.rows
                    /\ Len(it'.fetches) = Len(it.fetches) + 1]_vars

\* a second search was made two records on, after a page of one record
\* requested with rows = 2
C15_Witness ==
    /\ Len(it.fetches) = 2
    /\ si.rows = 2
    /\ it.pages[1].n = 1
    /\ it.fetches[2].start = it.fetches[1].start + 2

\* every page received so far has records and reports the total T
SteadyServer(T) ==
    \A i \in 1..Len(it.pages) : it.pages[i].n > 0 /\ it.pages[i].total = T

\* C16: with rows = r > 0 and a server that reports one total T and sends
\* records in every page, the searches are made at the caller's start s,
\* then s + r, s + 2r, ... for as long as the offset already fetched plus r
\* is below T; the records read are those of the pages, each once, in
\* order; when Next has returned false the last offset o has T <= o + r and
\* Error() is nil.
C16_DrainYieldsAll ==
    \A T \in Totals :
        (it.params.rows > 0 /\ ~Failed /\ SteadyServer(T)) =>
            LET r == it.params.rows
                nf == Len(it.fetches)
            IN  /\ \A i \in 1..nf :
                      /\ it.fetches[i].start = it.params.start + (i - 1) * r
                      /\ it.fetches[i].rows = r
                /\ \A i \in 1..(nf - 1) : it.fetches[i].start + r < T
                /\ IsPrefix(it.yielded, AllRecords(it.pages, Len(it.pages)))
                /\ Drained =>
                      /\ nf >= 1 /\ Len(it.pages) = nf
                      /\ T <= it.fetches[nf].start + r
                      /\ it.yielded = AllRecords(it.pages, nf)
                      /\ Error(si) = NoRet

\* total 25, rows 10, pages of 2, 2 and 1 records: drained after 5 records
\* and 3 searches
C16_Witness ==
    /\ Drained
    /\ it.params = [start |-> 0, rows |-> 10]
    /\ SteadyServer(25)
    /\ Len(it.pages) = 3
    /\ it.pages[1].n = 2 /\ it.pages[2].n = 2 /\ it.pages[3].n = 1
    /\ Len(it.yielded) = 5
    /\ Len(it.fetches) = 3

\* C17: when the first page a fresh iterator receives has no records, the
\* first Next returns false, no record is read, one search has been made
\* and Error() is nil, whatever total came with the page.
C17_EmptyFirstPage ==
    (it.nexts = 1 /\ it.pc = "ready" /\ Len(it.pages) = 1 /\ it.pages[1].n = 0) =>
        /\ it.last = "false"
        /\ it.yielded = <<>>
        /\ Len(it.fetches) = 1
        /\ Error(si) = NoRet
        /\ Value(si) = NilRecord

\* the first Next has returned on an empty page that reported 25 records
C17_Witness ==
    /\ it.nexts = 1 /\ it.pc = "ready"
    /\ Len(it.pages) = 1
    /\ it.pages[1].n = 0 /\ it.pages[1].total = 25

\* the page size the specification gives an iterator
PageSize(rows) == IF rows > 0 THEN rows ELSE DefaultRows

\* C18: a fresh iterator searches first at the caller's start, asks for
\* rows records per page (10 when rows <= 0), and uses that same page size
\* when it tests offset + pageSize < total and when it advances the offset.
C18_DefaultPageSize ==
    LET ps == PageSize(it.params.rows)
    IN  /\ \A i \in 1..Len(it.fetches) :
              /\ it.fetches[i].url.rows = ps
              /\ it.fetches[i].start = it.params.start + (i - 1) * ps
        /\ (Drained /\ it.pages # <<>> /\ Last(it.pages).n > 0) =>
              Last(it.fetches).start + ps >= Last(it.pages).total

\* C19: Value() is the record at the in-page index when a page is present
\* and the index is within it, and nil otherwise, as before the first Next;
\* after a Next that returned true the index is within the page and Value()
\* is the record just advanced to.
C19_ValueInBounds ==
    LET inPage == si.batch # NoBatch /\ 0 <= si.index /\ si.index < si.batch.n
    IN  /\ inPage => Value(si) = [page |-> si.batch.id, idx |-> si.index]
        /\ ~inPage => Value(si) = NilRecord
        /\ it.nexts = 0 => Value(si) = NilRecord
        /\ (it.pc = "ready" /\ it.last = "true") =>
              /\ inPage
              /\ si.batch = Last(it.pages)
              /\ Last(it.yielded) = Value(si)
              /\ Value(si) # NilRecord

\* Next returned true on the second record of the second page
C19_Witness ==
    /\ it.pc = "ready" /\ it.last = "true"
    /\ si.batch.id = 2 /\ si.index = 1
    /\ Value(si) = [page |-> 2, idx |-> 1]

\* C20: TotalResults() is 0 until a page has been received and from then
\* on the total that came with the latest page received; failed searches,
\* cancelled Next calls and Next calls without a search leave it alone.
C20_TotalIsLatest ==
    /\ [](TotalResults(si) =
             IF it.pages = <<>> THEN 0 ELSE Last(it.pages).total)
    /\ [][it'.pages = it.pages => TotalResults(si') = TotalResults(si)]_vars

\* a first page reported 25 and an empty second page reported 3
C20_Witness ==
    /\ Len(it.pages) = 2
    /\ it.pages[1].total = 25
    /\ it.pages[2].total = 3 /\ it.pages[2].n = 0
    /\ TotalResults(si) = 3

\* --------------------------------------------------- claims on construction
\* the WithRateLimit values among the options, in the order applied
RateArgs(os) ==
    SelectSeq(os, LAMBDA o : o.name = "WithRateLimit")

\* C21: when the last WithRateLimit applied has a value that is not
\* positive, whatever was applied before it, the client has no limiter and
\* no call waits for a permit.
C21_NonPositiveRateDisables ==
    (~client.panicked /\ RateArgs(opts) # <<>> /\ Last(RateArgs(opts)).arg <= 0) =>
        /\ rateLimiter = "nil"
        /\ \A c \in load.callers :
              call[c].pc # "gate" /\ obs[c].gate = "none" /\ obs[c].permits = 0

\* C22: NewClient returns a client for every list of options: it never
\* panics.
C22_ConstructionNeverFails == ~client.panicked

\* ------------------------------------------------ claims on the executor
\* the cause the specification expects for a retryable outcome
CauseOf(o) ==
    IF o.kind = "err"
    THEN [kind |-> "transport", status |-> 0, body |-> o.body]
    ELSE [kind |-> "http", status |-> o.status, body |-> ""]

\* C23: a call that has made an attempt and returns RetriesExhausted wraps
\* the cause of its final attempt, the last transport error or retryable
\* status, never that of an earlier attempt: exhausted on a 500, the error
\* carries 500.
C23_WrapsLastCause ==
    \A c \in load.callers :
        (Done(c) /\ call[c].ret.kind = "RetriesExhausted" /\ obs[c].attempts >= 1) =>
            /\ RetryableOutcome(obs[c].last)
            /\ call[c].ret.cause = CauseOf(obs[c].last)
            /\ obs[c].last.kind = "resp" =>
                   call[c].ret.cause.status = obs[c].last.status

\* the budget of two retries was spent and the third attempt got a 500
C23_Witness ==
    \E c \in load.callers :
        /\ Done(c) /\ call[c].ret.kind = "RetriesExhausted"
        /\ obs[c].attempts = 3
        /\ obs[c].last.kind = "resp" /\ obs[c].last.status = 500
        /\ call[c].ret.cause.status = 500

\* C24: every request handed to the transport, first attempt or retry,
\* carries Authorization "Bearer " + the configured token, Accept the
\* configured content type and User-Agent the configured user agent; none
\* is sent with an empty token.
C24_HeadersOnEveryAttempt ==
    \A c \in load.callers :
        /\ call[c].pc = "inflight" => obs[c].attempts >= 1
        /\ obs[c].attempts >= 1 =>
              /\ bearerToken # ""
              /\ obs[c].hdr.Authorization = <<"Bearer ", bearerToken>>
              /\ obs[c].hdr.Accept = client.contentType
              /\ obs[c].hdr.UserAgent = client.userAgent

\* the third attempt of a call is with the transport
C24_Witness ==
    \E c \in load.callers :
        /\ call[c].pc = "inflight"
        /\ call[c].attempt = 2
        /\ obs[c].attempts = 3
        /\ obs[c].hdr.Authorization = <<"Bearer ", "tok">>

\* ------------------------------------------------- claims on typed fetches
\* the body of a 200 response does not decode under the client's format
DecodeFails(c) ==
    \/ client.contentType \notin {ContentTypeJSON, ContentTypeXML}
    \/ client.contentType = ContentTypeJSON /\ call[c].ret.body # "b1"
    \/ client.contentType = ContentTypeXML /\ call[c].ret.body # "b2"

\* C25: a typed fetch whose executor returned 200 but whose body does not
\* decode under the configured format, or whose content type is neither
\* JSON nor XML, returns a non-nil error and a nil result; no fetch
\* returns a result together with an error, or neither.
C25_DecodeFailureSurfaces ==
    \A c \in load.callers :
        call[c].pc = "returned" =>
            /\ (call[c].ret.kind = "ok" /\ DecodeFails(c)) =>
                  /\ call[c].res.err # NoRet
                  /\ call[c].res.value = NilValue
            /\ call[c].res.err # NoRet <=> call[c].res.value = NilValue
            /\ call[c].res.value # NilValue =>
                  call[c].res.value = [doc |-> call[c].ret.body]

\* a fetch on a client configured for XML returned a decode error for a
\* 200 response with a JSON body
C25_Witness ==
    \E c \in load.callers :
        /\ call[c].pc = "returned"
        /\ client.contentType = ContentTypeXML
        /\ call[c].ret.kind = "ok" /\ call[c].ret.body = "b1"
        /\ call[c].res = [value |-> NilValue, err |-> DecodeError]

\* ---------------------------------------- claims on the pure functions
\* what the server reads back from an escaped query value
RECURSIVE QueryUnescape(_)
QueryUnescape(e) ==
    IF e = <<>> THEN <<>>
    ELSE IF Head(e) = "+" THEN <<" ">> \o QueryUnescape(Tail(e))
    ELSE IF Head(e) = "%" THEN <<":">> \o QueryUnescape(SubSeq(e, 4, Len(e)))
    ELSE <<Head(e)>> \o QueryUnescape(Tail(e))

\* the parts of the search URL on which C26 and its amendment agree
SearchURLBasics ==
    /\ fn.out.base = client.apiURL \o <<"/", "search">>
    /\ QueryUnescape(fn.out.q) = fn.in.query
    /\ fn.out.hasStart => fn.out.start = fn.in.start
    /\ fn.out.rows = IF fn.in.rows > 0 THEN fn.in.rows ELSE 10

\* C26 as stated: the URL is <apiURL>/search, q is the query, start is
\* present iff the offset is not 0, rows is the row count or 10.
C26_StartIffNonZero ==
    fn.op = "buildSearchURL" =>
        /\ SearchURLBasics
        /\ fn.out.hasStart <=> fn.in.start # 0

\* C26 amended: the URL is <apiURL>/search, q is the query, start is
\* present iff the offset is greater than 0 (and then equal to it), rows is
\* the row count when positive and 10 otherwise.
C26_StartIffPositive ==
    fn.op = "buildSearchURL" =>
        /\ SearchURLBasics
        /\ fn.out.hasStart <=> fn.in.start > 0

\* a search with an escaped query, a negative start and no rows
C26_Witness ==
    /\ fn.op = "buildSearchURL"
    /\ fn.in = [query |-> <<"a", ":">>, start |-> -1, rows |-> 0]
    /\ ~fn.out.hasStart
    /\ fn.out.rows = 10
    /\ fn.out.q = <<"a", "%", "3", "A">>

\* the path is lead + "id" + rest with at most one leading separator
PathIs(rest) ==
    \E lead \in {<<>>, <<"/">>} : fn.in.path = lead \o <<"id">> \o rest
\* GetByPath made exactly one logical call, to <apiURL>/id/<resource>
OneCallTo(resource) ==
    fn.out.calls = <<client.apiURL \o <<"/", "id", "/">> \o resource>>
\* GetByPath returned the fetch's result (part = "") or a part of it, and
\* the fetch's error when it failed
Returned(part) ==
    IF fn.in.ok
    THEN fn.out.err = "" /\ fn.out.result.kind = "value"
         /\ fn.out.result.part = part
    ELSE fn.out.err # "" /\ fn.out.result.kind # "value"

\* C27: the waits before the successive retries of one call grow by a
\* constant factor: wait(k+1) / wait(k) is the same for every k >= 1, that
\* is wait(k+1) * wait(k+1) = wait(k) * wait(k+2).
C27_ConstantFactor ==
    \A c \in load.callers :
        \A k \in 1..(Len(obs[c].waits) - 2) :
            obs[c].waits[k + 1] * obs[c].waits[k + 1]
                = obs[c].waits[k] * obs[c].waits[k + 2]

\* C28: GetByPath strips one leading "/" and dispatches: "id" and
\* "id/record" make one call to <apiURL>/id/record; "id/<type>" for the
\* twelve fetched types one call to <apiURL>/id/<type>; "id/work/<code>"
\* one call to <apiURL>/id/work/<code>; "id/activities" fetches the record
\* and returns its activities summary; the seven person parts fetch the
\* person and return that part.
C28_GetByPathDispatch ==
    fn.op = "GetByPath" =>
        /\ (PathIs(<<>>) \/ PathIs(<<"/", "record">>)) =>
              OneCallTo(<<"record">>) /\ Returned("")
        /\ \A t \in {"person", "works", "educations", "employments",
                      "fundings", "peer-reviews", "distinctions",
                      "invited-positions", "memberships", "qualifications",
                      "services", "research-resources"} :
              PathIs(<<"/", t>>) => OneCallTo(<<t>>) /\ Returned("")
        /\ PathIs(<<"/", "work", "/", "code">>) =>
              OneCallTo(<<"work", "/", "code">>) /\ Returned("")
        /\ PathIs(<<"/", "activities">>) =>
              OneCallTo(<<"record">>) /\ Returned("ActivitiesSummary")
        /\ \A t \in {"biography", "other-names", "researcher-urls", "email",
                      "address", "keywords", "external-identifiers"} :
              PathIs(<<"/", t>>) => OneCallTo(<<"person">>) /\ Returned(t)

\* "/id/record" on a client with a configured API URL fetched the record
C28_Witness ==
    /\ fn.op = "GetByPath"
    /\ fn.in.path = <<"/", "id", "/", "record">>
    /\ fn.in.ok
    /\ fn.out.calls = <<<<"s", "/", "id", "/", "record">>>>
    /\ fn.out.result.kind = "value"

\* the resource type of the path: the letters between the first and the
\* second separator after the identifier
TypeOfPath(t) ==
    \E tail \in PathTails : PathIs(<<"/">> \o t \o tail)

\* C29: GetByPath returns an error and no result, whatever its fetch
\* answers, for the empty path and "/" (invalid path), for "id/work"
\* (work path requires put-code) and for every resource type outside the
\* supported set (unsupported resource type); the first two make no call.
C29_GetByPathRefuses ==
    fn.op = "GetByPath" =>
        /\ fn.in.path \in {<<>>, <<"/">>} =>
              /\ fn.out.err = "invalid path"
              /\ fn.out.result.kind = "nil"
              /\ fn.out.calls = <<>>
        /\ PathIs(<<"/", "work">>) =>
              /\ fn.out.err = "work path requires put-code"
              /\ fn.out.result.kind = "nil"
              /\ fn.out.calls = <<>>
        /\ (TypeOfPath(<<"zzz">>) \/ TypeOfPath(<<>>)) =>
              /\ fn.out.err = "unsupported resource type in path"
              /\ fn.out.result.kind = "nil"

\* "/id/work" was refused although its fetch would have succeeded
C29_Witness ==
    /\ fn.op = "GetByPath"
    /\ fn.in = [path |-> <<"/", "id", "/", "work">>, ok |-> TRUE]
    /\ fn.out.err = "work path requires put-code"
    /\ fn.out.calls = <<>>

\* ---- C30
\* the last '/'-separated segment of s with its hyphens removed
SegmentOf(s) == RemoveHyphens(LastPart(s))
\* the value of a check character: 10 for X
CheckValue(ch) == IF ch = "X" THEN 10 ELSE Atoi(ch)
\* the fold total = (total + digit) * 2 over the first n digits of s
RECURSIVE Fold(_, _)
Fold(s, n) == IF n = 0 THEN 0 ELSE (Fold(s, n - 1) + Atoi(s[n])) * 2
\* s is a well-formed iD: 16 characters, 15 digits, then a digit or X that
\* is the mod 11-2 check character of the 15 digits
WellFormed(s) ==
    /\ Len(s) = 16
    /\ \A i \in 1..15 : IsDigit(s[i])
    /\ IsDigit(s[16]) \/ s[16] = "X"
    /\ CheckValue(s[16]) = (12 - (Fold(s, 15) % 11)) % 11
Validated == fn.op = "ValidateOrcidID"
Accepted == fn.out.err = ""

\* C30 as stated: ValidateOrcidID accepts an input iff its last
\* '/'-separated segment, hyphens removed, has 16 characters, 15 digits and
\* then the digit or X that is their mod 11-2 check character.
C30_AcceptsIffWellFormed ==
    Validated => (Accepted <=> WellFormed(SegmentOf(fn.in)))

\* C30 amended: ValidateOrcidID accepts an input iff the last '/'-separated
\* segment of the input without its leading and trailing white space,
\* hyphens removed, has 16 characters, 15 digits and then the digit or X
\* that is their mod 11-2 check character (with the check character's value
\* c, 10 for X, the weighted sum of the digits plus c is 1 modulo 11); every
\* other input is rejected with an error.
C30_AcceptsIffTrimmedWellFormed ==
    Validated =>
        /\ Accepted <=> WellFormed(SegmentOf(TrimSpace(fn.in)))
        /\ Accepted =>
              (Fold(SegmentOf(TrimSpace(fn.in)), 15)
                   + CheckValue(SegmentOf(TrimSpace(fn.in))[16])) % 11 = 1
        /\ ~Accepted => fn.out.err # ""

\* the iD 0000-0002-1825-0097 with a space before it is accepted
C30_Witness ==
    /\ Validated
    /\ fn.in = <<" ">> \o Hyphenated(OrcidStem \o <<"0", "9", "7">>)
    /\ Accepted

\* ---- C31
\* the calls made on the query before any Build, and before its last Build
CallsBefore(n) == SelectSeq(SubSeq(fn.in, 1, n), LAMBDA c : c.method # "Build")
\* the position in the log of the k-th Build
RECURSIVE BuildAt(_, _)
BuildAt(k, from) ==
    IF fn.in[from].method = "Build"
    THEN IF k = 1 THEN from ELSE BuildAt(k - 1, from + 1)
    ELSE BuildAt(k, from + 1)
\* the methods said to quote a value that holds a space
QuotingMethods ==
    {"FamilyName", "GivenNames", "CreditName", "OtherNames", "Keyword",
     "WorkTitle", "FundingTitle", "PersonalDetails", "Biography",
     "AffiliationOrganization"}
PrefixOf(method) == (CHOOSE m \in FieldMethods : m.name = method).prefix
\* the fragment one call adds, <<>> marking a call that adds none
FragmentOf(c) ==
    IF c.method \in {"WithStart", "WithRows"} THEN <<>>
    ELSE IF c.method = "RawQuery" THEN <<c.arg>>
    ELSE IF c.method = "And" THEN << <<"AND">> >>
    ELSE IF c.method = "Or" THEN << <<"OR">> >>
    ELSE IF c.method = "Not" THEN << <<"NOT">> >>
    ELSE IF c.method \in QuotingMethods /\ (\E i \in 1..Len(c.arg) : c.arg[i] = " ")
         THEN << <<PrefixOf(c.method), "\"">> \o c.arg \o <<"\"">> >>
    ELSE << <<PrefixOf(c.method)>> \o c.arg >>
\* the fragments of the calls cs, in call order, with one space between two
RECURSIVE Spaced(_)
Spaced(cs) ==
    IF cs = <<>> THEN <<>>
    ELSE LET rest == Spaced(Tail(cs))
             frag == FragmentOf(Head(cs))
         IN  IF frag = <<>> THEN rest
             ELSE IF \A i \in 2..Len(cs) : FragmentOf(cs[i]) = <<>> THEN frag[1]
             ELSE frag[1] \o <<" ">> \o rest
\* the number given to the last call of method among cs, or default
RECURSIVE LastArg(_, _, _)
LastArg(cs, method, default) ==
    IF cs = <<>> THEN default
    ELSE IF cs[Len(cs)].method = method THEN cs[Len(cs)].n
    ELSE LastArg(SubSeq(cs, 1, Len(cs) - 1), method, default)
\* what the k-th Build should return
Expected(k) ==
    LET cs == CallsBefore(BuildAt(k, 1))
    IN  [Query |-> Spaced(cs), Start |-> LastArg(cs, "WithStart", 0),
         Rows |-> LastArg(cs, "WithRows", 10)]

\* C31: Build returns the fragments added so far, in call order, joined by
\* single spaces (a value holding a space is quoted by the name, keyword and
\* title methods), with the start and rows last set (0 and 10 by default),
\* and a second Build with no addition in between returns the same.
C31_BuildJoinsFragments ==
    fn.op = "SearchQuery" =>
        /\ \A k \in 1..Len(fn.out.built) : fn.out.built[k] = Expected(k)
        /\ (Len(fn.out.built) = 2 /\ BuildAt(2, 1) = BuildAt(1, 1) + 1) =>
               fn.out.built[2] = fn.out.built[1]

\* family-name:"a b" AND was built, and then built again
C31_Witness ==
    /\ fn.op = "SearchQuery"
    /\ Len(fn.out.built) = 2
    /\ fn.in = <<[method |-> "FamilyName", arg |-> <<"a", " ", "b">>, n |-> 0],
                 [method |-> "And", arg |-> <<>>, n |-> 0],
                 [method |-> "Build", arg |-> <<>>, n |-> 0],
                 [method |-> "Build", arg |-> <<>>, n |-> 0]>>
    /\ fn.out.built[2].Query = <<"family-name:", "\"", "a", " ", "b", "\"", " ", "AND">>
    /\ fn.out.built[2].Rows = 10

\* ---- C32
Entered(c) == call[c].pc # "idle"
Most(a, b) == IF a > b THEN a ELSE b
\* C32: a call that has entered doRequest returns, with a response or an
\* error, and has made at most maxRetries + 1 attempts at any time.
C32_CallReturns ==
    /\ [](\A c \in Calls : obs[c].attempts <= Most(maxRetries + 1, 0))
    /\ \A c \in Calls :
          Entered(c) ~> (Done(c) /\ call[c].ret.kind # "none")

\* a call has returned RetriesExhausted after maxRetries + 1 = 3 attempts
\* and both backoffs, with no cancellation
C32_Witness ==
    /\ maxRetries = 2
    /\ Done(1)
    /\ ~ctxDone[1]
    /\ call[1].ret.kind = "RetriesExhausted"
    /\ obs[1].attempts = 3
    /\ Len(obs[1].waits) = 2

\* ---- C33
\* every search so far was answered with a page that reports the total T
FixedTotal(T) ==
    /\ ~Failed
    /\ \A i \in 1..Len(it.pages) : it.pages[i].total = T

\* C33: against a server that answers every search and reports one total,
\* for every start and every rows, no offset is fetched twice (the offsets
\* fetched are finitely many, so the drain ends).
C33_NoOffsetFetchedTwice ==
    \A T \in Totals :
        FixedTotal(T) =>
            \A i, j \in 1..Len(it.fetches) :
                i < j => it.fetches[i].start # it.fetches[j].start

\* ---- C34
\* the last Next call returned false
SaidNoMore == it.pc = "ready" /\ it.nexts > 0 /\ it.last = "false"

\* C34: once Next has returned false, for whatever reason, a later Next
\* returns false, starts no search and leaves the offset as it is.
C34_NoMoreIsStable ==
    [][SaidNoMore =>
          /\ ~FetchStarts
          /\ si'.start = si.start
          /\ it'.last = "false"]_vars

\* ---- C35
\* C35: a call made with a token, whose context is never done and whose
\* request can be built, has made at least one attempt when it returns, and
\* a RetriesExhausted error wraps a cause that is not nil.
C35_AtLeastOneAttempt ==
    \A c \in load.callers :
        (Done(c) /\ HasToken /\ ~ctxDone[c] /\ call[c].ret.kind # "BadRequest") =>
            /\ obs[c].attempts >= 1
            /\ call[c].ret.kind = "RetriesExhausted" => call[c].ret.cause # NilErr

\* ---- C36
\* base URL, timeout, maxRetries, rate limit, content type, user agent and
\* token of a client
Settings(apiURL, timeout, retries, rate, contentType, userAgent, token) ==
    [apiURL |-> apiURL, timeout |-> timeout, maxRetries |-> retries,
     rateLimit |-> rate, contentType |-> contentType, userAgent |-> userAgent,
     bearerToken |-> token]
SettingsNow ==
    Settings(client.apiURL, client.timeout, maxRetries, rateLimit,
             client.contentType, client.userAgent, bearerToken)
SettingsBuilt ==
    LET c == NewClient(opts)
    IN  Settings(c.apiURL, c.timeout, c.maxRetries, c.rateLimit,
                 c.contentType, c.userAgent, c.bearerToken)

\* C36: the client's settings are at all times those NewClient gave it, no
\* step of a call changes a field of the client, and of the limiter a call
\* changes nothing but the ticker's channel, from which it takes one tick.
C36_ConfigImmutable ==
    /\ [](SettingsNow = SettingsBuilt)
    /\ [][/\ UNCHANGED <<opts, client, bearerToken, maxRetries, rateLimit, rateLimiter>>
          /\ nextTick' = nextTick => tickerC' \in {tickerC, tickerC - 1}]_vars

\* an iterator on a rate-limited client has fetched two pages, each through
\* the limiter, and the client is as it was built
C36_Witness ==
    /\ rateLimiter = "ticker"
    /\ Len(it.pages) >= 2
    /\ obs[IterCall].permits >= 2
    /\ SettingsNow = SettingsBuilt

\* ---- C37
\* a step of the caller that is no step of a Next call
OutsideNext == it.pc = "ready" /\ UNCHANGED <<it, call, ctxDone, obs>>

\* C37: offset, page, index, total and error change in the steps of Next
\* only: a call of Value(), Error() or TotalResults() returns what the
\* cursor holds and leaves it as it is; the page the iterator holds is the
\* last one fetched, and Value() is nil or a record of that page.
C37_OnlyNextMutates ==
    /\ [](/\ si.batch = NoBatch <=> it.pages = <<>>
          /\ it.pages # <<>> => si.batch = Last(it.pages)
          /\ Value(si) # NilRecord => Value(si).page = Len(it.pages))
    /\ [][OutsideNext =>
             /\ si' = si
             /\ fn'.op = "Value" => fn'.out.value = Value(si)
             /\ fn'.op = "Error" => fn'.out.err = Error(si)
             /\ fn'.op = "TotalResults" => fn'.out.total = TotalResults(si)]_vars

\* Value() was called on the first page; since then Next has fetched the
\* second page, and the iterator gives a record of the second page only
C37_Witness ==
    /\ fn.op = "Value"
    /\ fn.out.value.page = 1
    /\ Len(it.pages) = 2
    /\ it.pc = "ready" /\ it.last = "true"
    /\ Value(si).page = 2

\* ---- C38
\* C38: the client NewClient returns has a transport whose Timeout is the
\* client's timeout, whatever options were given and in whatever order.
C38_TransportTimeoutIsTimeout ==
    (~client.panicked /\ client.httpClient # "nil") =>
        client.httpTimeout = client.timeout

====
